---- MODULE Spec2Model ----
(***************************************************************************)
(* Session/sandbox orchestration core of src/main.py (class KernelManager  *)
(* and the /exec endpoint run_code), as a state machine.                   *)
(*                                                                         *)
(* Request threads run the /exec request (resolve, mint, execute_code);    *)
(* one reaper runs cleanup_sessions sweeps; the Docker daemon is the       *)
(* executor, whose containers may die on their own and whose calls may     *)
(* fail.  start_new_container_unlocked is reached through                  *)
(* get_or_create_container, as in every endpoint (start_new_container,     *)
(* main.py:187-189, has no caller in main.py).                             *)
(* A thread whose pc names an executor call                                *)
(* ("reload", "start", "run", "mkdir", "attempt", "rm", "stop") has issued *)
(* that call and is blocked in it; the step that leaves the pc is the      *)
(* call's return.                                                          *)
(***************************************************************************)
EXTENDS Integers, Sequences, FiniteSets, TLC

VARIABLES
    active_kernels,     \* self.active_kernels: session_id -> [container, last_accessed]
    lock,               \* self.lock: "free" or the name of its holder
    session_to_nanoid,  \* self.session_to_nanoid
    nanoid_to_session,  \* self.nanoid_to_session
    file_id_map,        \* self.file_id_map: nanoid session -> (file id -> filename)
    docker,             \* the daemon's containers: handle -> [status, session_id,
                        \*   managed, files]
    session_dirs,       \* paths under RCE_DATA_DIR_INTERNAL: <<sid>> a session
                        \*   directory, <<sid, name>> a file in it
    file_bytes,         \* the bytes written to a file: place -> content
    volume_mode,        \* RCE_DATA_DIR_HOST is set
    data_dir_internal,  \* RCE_DATA_DIR_INTERNAL is set (it is by default)
    now,                \* time.time()
    faults,             \* transient executor failures so far
    nanoid_count,       \* ids drawn from generate_nanoid so far
    started,            \* startup_event has run
    requests,           \* requests each thread may still serve
    th,                 \* request threads: pc and locals of the running operation
    rp                  \* the reaper: pc and locals of cleanup_sessions

vars == <<active_kernels, lock, session_to_nanoid, nanoid_to_session, file_id_map,
          docker, session_dirs, file_bytes, volume_mode, data_dir_internal, now, faults,
          nanoid_count, started, requests, th, rp>>

mapVars == <<session_to_nanoid, nanoid_to_session, file_id_map>>
envVars == <<volume_mode, data_dir_internal, now, started>>

(***************************************************************************)
(* Bounds of the model.                                                    *)
(***************************************************************************)
MaxContainers == 3      \* containers the daemon ever holds
MaxTime == 2            \* the clock runs 0..MaxTime
MaxFaults == 2          \* transient executor failures injected
MaxRequests == 1        \* requests a thread serves
MaxFileRequests == 2    \* requests the client of FileSpec sends

(***************************************************************************)
(* Configuration (src/main.py:32-33), set small.                           *)
(***************************************************************************)
RCE_SESSION_TTL == 1
RCE_MAX_SESSIONS == 2

SessionIds == {"s1", "s2", "s3"}
Threads == {"t1", "t2"}
Handles == 1..MaxContainers
ExitCodes == {0, 1}

\* pcs at which a thread is blocked in a call to the Docker daemon
ExecutorCallPcs == {"reload", "start", "run", "mkdir", "attempt", "rm", "stop"}

\* generate_nanoid (main.py:124-125) and uuid.uuid4 (main.py:600): the i-th id
\* drawn; no two draws collide
Nanoid(i) == "n" \o ToString(i)
Uuid(i) == "u" \o ToString(i)

(***************************************************************************)
(* Ids and filenames as the client sends them.  An id is the sequence of   *)
(* its tokens: runs of characters sanitize_id keeps (alphanumeric, "-",    *)
(* "_") and single characters it drops.  A filename is the sequence of its *)
(* "/"-separated components, so "../../secret.txt" is                      *)
(* <<"..", "..", "secret.txt">> and "d/" is <<"d", "">>.                   *)
(***************************************************************************)
DroppedChars == {"/", ".", " ", ";"}

RECURSIVE Concat(_)
Concat(toks) == IF toks = <<>> THEN "" ELSE toks[1] \o Concat(Tail(toks))

\* a sanitizer that lets the dot through
sanitize_keeps_dots(id_str) ==
    Concat(SelectSeq(id_str, LAMBDA c : c \notin DroppedChars \ {"."}))

\* main.py:127-133
sanitize_id(id_str) ==
    Concat(SelectSeq(id_str, LAMBDA c : c \notin DroppedChars))

\* os.path.basename (main.py:319, 344, 698): what follows the last separator
BasenameKeepsDirs(f) == f
basename(f) == <<f[Len(f)]>>

\* `not safe_filename` (main.py:320, 345)
IsEmptyName(f) == f = <<"">>

\* os.path.join(dir, f) (main.py:326, 350, 712): an absolute f replaces dir
IsAbsolute(f) == Len(f) > 1 /\ f[1] = ""
PathJoin(dir, f) == IF IsAbsolute(f) THEN f ELSE dir \o f

\* the place under RCE_DATA_DIR_INTERNAL a relative path leads to: ".."
\* goes up (a result that begins with ".." lies outside the directory),
\* "." and "" stay
RECURSIVE Normalize(_, _)
Normalize(at, p) ==
    IF p = <<>> THEN at
    ELSE LET c == p[1] IN
         Normalize(IF c \in {"", "."} THEN at
                   ELSE IF c = ".." /\ at # <<>> /\ at[Len(at)] # ".."
                   THEN SubSeq(at, 1, Len(at) - 1)
                   ELSE Append(at, c),
                   Tail(p))

Remove(f, k) == [x \in (DOMAIN f) \ {k} |-> f[x]]
Put(f, k, v) == [x \in (DOMAIN f) \cup {k} |-> IF x = k THEN v ELSE f[x]]
EmptyMap == [x \in {} |-> 0]

\* the lowest handle the daemon has not used yet, 0 when the pool is used up
FreshHandle ==
    IF \E h \in Handles : docker[h].status = "unborn"
    THEN CHOOSE h \in Handles :
            /\ docker[h].status = "unborn"
            /\ \A g \in Handles : docker[g].status = "unborn" => h <= g
    ELSE 0

\* a container of the daemon: its status, its session_id label, whether it
\* carries the managed_by label of this service (main.py:231-232, 254), and
\* the files of its /mnt/data when that is not a bind mount
Container(st, sid, own, fs) ==
    [status |-> st, session_id |-> sid, managed |-> own, files |-> fs]
Unborn == Container("unborn", "", FALSE, {})

Event(e, h, r, x) == [ev |-> e, h |-> h, r |-> r, exit |-> x]
NoOutcome == [code |-> "none", exit |-> -1, h |-> 0]
Outcome(code, x, h) == [code |-> code, exit |-> x, h |-> h]

InitThread ==
    [pc |-> "idle", op |-> "none", client |-> "", sid |-> "", force |-> FALSE,
     container |-> 0, c |-> 0, in_handler |-> FALSE, replaced |-> 0,
     pending |-> NoOutcome, outcome |-> NoOutcome, log |-> <<>>,
     raw |-> <<>>, nanoid |-> "", filename |-> <<>>, safe |-> <<>>,
     files |-> {}, path |-> <<>>, content |-> <<>>,
     res |-> [exit_code |-> 0, output |-> <<>>], listing |-> <<>>,
     code |-> [parses |-> TRUE, body |-> <<>>, form |-> "source"],
     wrapped |-> [parses |-> TRUE, body |-> <<>>, form |-> "source"]]

InitReaper ==
    [pc |-> "sleep", to_delete |-> {}, cur |-> "", data |-> 0,
     selected |-> {}, processed |-> {}, popped |-> {}, stops |-> {}, failed |-> {}]

(***************************************************************************)
(* Init: a constructed KernelManager (empty maps, free lock) before        *)
(* startup_event; the daemon may hold containers left by an earlier        *)
(* process: none, one for session s1 (running or exited), or running ones  *)
(* for s1 and s2.                                                          *)
(***************************************************************************)
Leftovers ==
    { <<>>, <<"running">>, <<"exited">>, <<"running", "running">> }
LeftoverLabel(h) == IF h = 1 THEN "s1" ELSE "s2"

Init ==
    /\ active_kernels = EmptyMap
    /\ lock = "free"
    /\ session_to_nanoid = EmptyMap
    /\ nanoid_to_session = EmptyMap
    /\ file_id_map = EmptyMap
    /\ \E left \in Leftovers :
         docker = [h \in Handles |->
                     IF h <= Len(left)
                     THEN Container(left[h], LeftoverLabel(h), TRUE, {})
                     ELSE Unborn]
    /\ session_dirs = {}
    /\ file_bytes = EmptyMap
    /\ volume_mode = FALSE
    /\ data_dir_internal = TRUE
    /\ now = 0
    /\ faults = 0
    /\ nanoid_count = 0
    /\ started = FALSE
    /\ requests = [t \in Threads |-> IF t = "t1" THEN MaxRequests ELSE 0]
    /\ th = [t \in Threads |-> InitThread]
    /\ rp = InitReaper

(***************************************************************************)
(* Helpers of the request threads.                                         *)
(***************************************************************************)
\* a return of the cached handle that leaves the timestamp as it was
TouchKeepsTime(s) == active_kernels

\* time.time() written into an entry (main.py:158, 174, 179, 241, 265)
Touch(s) == [active_kernels EXCEPT ![s].last_accessed = now]

\* a capacity test that lets one entry more in
CapacityReachedStrict(n) == n > RCE_MAX_SESSIONS

\* main.py:193: the capacity test of start_new_container_unlocked
CapacityReached(n) == n >= RCE_MAX_SESSIONS

\* every failure of an attempt taken as retryable
RetryableAny(kind) == kind \in {"notfound", "api", "other"}

\* main.py:427: the errors of an attempt that execute_code retries
Retryable(kind) == kind \in {"notfound", "api"}

\* a retry after every retryable failure, the second attempt's included
ShouldRetryAlways(kind, force) == Retryable(kind)

\* main.py:425-431: only the first attempt is inside the inner try, so only
\* it is retried (force is set once the retry has begun)
ShouldRetry(kind, force) == Retryable(kind) /\ ~force

\* an rm failure that propagates as a 500
AfterCleanupMasks(pending, failed) ==
    IF failed THEN Outcome("500", -1, 0) ELSE pending

\* main.py:446-451: what execute_code reports once the rm of its finally
\* clause has returned (failed) or not
AfterCleanup(pending, failed) == pending

\* where an operation other than execute_code goes on when its
\* get_or_create_container has returned: list_files to its ls (main.py:381),
\* upload_file to its put_archive (main.py:339) or, in volume mode, back to
\* upload_files (main.py:330, 616), download_file to its get_archive
\* (main.py:361)
AfterGoc(op) ==
    CASE op \in {"list", "exec_ls"} -> "ls"
      [] op = "upload" -> IF volume_mode THEN "filemap" ELSE "put"
      [] op = "download" -> "get"
      [] OTHER -> "done"

\* how an exception leaves an endpoint: upload_files reports anything that
\* is not an HTTPException as a 500 (main.py:641-645); the other endpoints
\* have no handler
HttpCodes == {"400", "404", "422", "500", "503"}
Reported(op, code) == IF op = "upload" /\ code \notin HttpCodes THEN "500" ELSE code

\* a retry that goes on with the handle it had
ReturnedStale(r, h) ==
    IF r.op = "exec"
    THEN [r EXCEPT !.pc = "attempt", !.container = IF r.force THEN @ ELSE h,
                   !.c = 0, !.in_handler = FALSE, !.replaced = 0,
                   !.log = Append(@, Event(IF r.force THEN "fgoc" ELSE "goc", h, "ok", -1))]
    ELSE [r EXCEPT !.pc = AfterGoc(r.op), !.container = h, !.c = 0,
                   !.in_handler = FALSE, !.replaced = 0]

\* The caller's continuation when get_or_create_container or
\* start_new_container returns handle h (the lock is released by `with`).
Returned(r, h) ==
    IF r.op = "exec"
    THEN [r EXCEPT !.pc = "attempt", !.container = h, !.c = 0, !.in_handler = FALSE, !.replaced = 0,
                   !.log = Append(@, Event(IF r.force THEN "fgoc" ELSE "goc", h, "ok", -1))]
    ELSE [r EXCEPT !.pc = AfterGoc(r.op), !.container = h, !.c = 0,
                   !.in_handler = FALSE, !.replaced = 0]

\* a failed forced refresh that leaves execute_code without the rm
RaisedSkipsCleanup(r, code) ==
    IF r.op = "exec" /\ r.force
    THEN [r EXCEPT !.pc = "done", !.c = 0, !.in_handler = FALSE, !.replaced = 0,
                   !.outcome = Outcome(IF code = "KeyError" THEN "500" ELSE code, -1, 0),
                   !.log = Append(@, Event("fgoc", 0, code, -1))]
    ELSE [r EXCEPT !.pc = "done", !.c = 0, !.in_handler = FALSE, !.replaced = 0,
                   !.outcome = Outcome(Reported(r.op, code), -1, 0)]

\* The caller's continuation when get_or_create_container or
\* start_new_container raises.  The first get_or_create_container of
\* execute_code is outside its try (main.py:393): the exception leaves
\* execute_code as it is.  The one of the retry (main.py:430) is inside:
\* an HTTPException is re-raised (main.py:441), anything else becomes a
\* 500 (main.py:443-445), and the finally clause runs the rm.
Raised(r, code) ==
    IF r.op = "exec" /\ r.force
    THEN [r EXCEPT !.pc = "rm", !.c = 0, !.in_handler = FALSE, !.replaced = 0,
                   !.pending = Outcome(IF code = "KeyError" THEN "500" ELSE code, -1, 0),
                   !.log = Append(@, Event("fgoc", 0, code, -1))]
    ELSE [r EXCEPT !.pc = "done", !.c = 0, !.in_handler = FALSE, !.replaced = 0,
                   !.outcome = Outcome(Reported(r.op, code), -1, 0)]

\* An HTTPException raised by start_new_container_unlocked.  When it was
\* called from the NotFound handler (main.py:171) the outer `except
\* Exception` (main.py:181) catches it and its `del` (main.py:183) raises
\* KeyError, the entry being deleted already (main.py:170).
RaisedInCreate(r, code) ==
    Raised([r EXCEPT !.log = Append(@, Event("create", 0, code, -1))],
           IF r.in_handler THEN "KeyError" ELSE code)

(***************************************************************************)
(* The /exec request, run_code (main.py:495-562), up to execute_code.      *)
(***************************************************************************)
BeginExec(t, client) ==
    /\ started
    /\ requests[t] > 0
    /\ requests' = [requests EXCEPT ![t] = @ - 1]
    /\ th[t].pc = "idle"
    /\ th' = [th EXCEPT ![t] = [InitThread EXCEPT !.pc = "resolve", !.op = "exec",
                                                  !.client = client]]
    /\ UNCHANGED <<file_bytes, active_kernels, lock, mapVars, docker, session_dirs, envVars,
                   faults, nanoid_count, rp>>

\* the response is sent and the thread is free for the next request
Respond(t) ==
    /\ th[t].pc = "done"
    /\ th' = [th EXCEPT ![t] = InitThread]
    /\ UNCHANGED <<file_bytes, requests, active_kernels, lock, mapVars, docker, session_dirs,
                   envVars, faults, nanoid_count, rp>>

\* a resolution that looks the id up as it was sent
resolve_unsanitized(session_id) ==
    LET sent == Concat(session_id)
    IN IF sent \in DOMAIN nanoid_to_session
       THEN nanoid_to_session[sent] ELSE sent

\* main.py:149-153
resolve_session_id(session_id) ==
    LET sanitized_id == sanitize_id(session_id)
    IN IF sanitized_id \in DOMAIN nanoid_to_session
       THEN nanoid_to_session[sanitized_id] ELSE sanitized_id

\* main.py:515
Resolve(t) ==
    /\ th[t].pc = "resolve"
    /\ lock = "free"
    /\ th' = [th EXCEPT ![t].pc = "mint", ![t].sid = resolve_session_id(<<th[t].client>>)]
    /\ UNCHANGED <<file_bytes, requests, active_kernels, lock, mapVars, docker, session_dirs, envVars,
                   faults, nanoid_count, rp>>

\* a request that mints a public id whether its session has one or not
MintAlways(t) ==
    LET s == th[t].sid IN
    /\ th[t].pc = "mint"
    /\ lock = "free"
    /\ nanoid_count' = nanoid_count + 1
    /\ session_to_nanoid' = Put(session_to_nanoid, s, Nanoid(nanoid_count + 1))
    /\ nanoid_to_session' = Put(nanoid_to_session, Nanoid(nanoid_count + 1), s)
    /\ th' = [th EXCEPT ![t].pc = "goc", ![t].nanoid = Nanoid(nanoid_count + 1)]
    /\ UNCHANGED <<file_bytes, requests, active_kernels, lock, file_id_map, docker, session_dirs, envVars,
                   faults, rp>>

\* main.py:518-524
Mint(t) ==
    LET s == th[t].sid IN
    /\ th[t].pc = "mint"
    /\ lock = "free"
    /\ IF s \notin DOMAIN session_to_nanoid
       THEN /\ nanoid_count' = nanoid_count + 1
            /\ session_to_nanoid' = Put(session_to_nanoid, s, Nanoid(nanoid_count + 1))
            /\ nanoid_to_session' = Put(nanoid_to_session, Nanoid(nanoid_count + 1), s)
       ELSE UNCHANGED <<nanoid_count, session_to_nanoid, nanoid_to_session>>
    /\ th' = [th EXCEPT ![t].pc = "goc",
                         ![t].nanoid = IF s \notin DOMAIN session_to_nanoid
                                       THEN Nanoid(nanoid_count + 1)
                                       ELSE session_to_nanoid[s]]
    /\ UNCHANGED <<file_bytes, requests, active_kernels, lock, file_id_map, docker, session_dirs, envVars,
                   faults, rp>>

(***************************************************************************)
(* get_or_create_container (main.py:155-185).                              *)
(***************************************************************************)
\* a get_or_create_container that refreshes the cached handle on every call
get_or_create_refreshing(t) ==
    LET r == th[t]
        s == r.sid
    IN
    /\ r.pc = "goc"
    /\ lock = "free"
    /\ lock' = t
    /\ th' = [th EXCEPT ![t] =
                IF s \in DOMAIN active_kernels
                THEN [r EXCEPT !.pc = "reload", !.c = active_kernels[s].container]
                ELSE [r EXCEPT !.pc = "create"]]
    /\ UNCHANGED <<file_bytes, requests, active_kernels, mapVars, docker, session_dirs, envVars,
                   faults, nanoid_count, rp>>

\* main.py:156-164: take the lock; the cached entry is returned within the
\* same critical section, every other path goes on holding the lock
get_or_create_container(t) ==
    LET r == th[t]
        s == r.sid
    IN
    /\ r.pc = "goc"
    /\ lock = "free"
    /\ IF ~r.force /\ s \in DOMAIN active_kernels
       THEN /\ active_kernels' = Touch(s)
            /\ th' = [th EXCEPT ![t] = Returned(r, active_kernels[s].container)]
            /\ UNCHANGED lock
       ELSE IF s \in DOMAIN active_kernels
       THEN /\ th' = [th EXCEPT ![t] = [r EXCEPT !.pc = "reload",
                                                 !.c = active_kernels[s].container]]
            /\ lock' = t
            /\ UNCHANGED active_kernels
       ELSE /\ th' = [th EXCEPT ![t] = [r EXCEPT !.pc = "create"]]
            /\ lock' = t
            /\ UNCHANGED active_kernels
    /\ UNCHANGED <<file_bytes, requests, mapVars, docker, session_dirs, envVars, faults, nanoid_count, rp>>

\* a forced refresh that reports the missing container to the caller instead
\* of starting a new one
ReloadRaisesWhenGone(t) ==
    LET r == th[t]
        s == r.sid
        st == docker[r.c].status
    IN
    /\ r.pc = "reload"
    /\ \/ /\ st = "gone"
          /\ active_kernels' = Remove(active_kernels, s)
          /\ th' = [th EXCEPT ![t] = Raised(r, "500")]
          /\ lock' = "free"
          /\ UNCHANGED faults
       \/ /\ st = "running"
          /\ active_kernels' = Touch(s)
          /\ th' = [th EXCEPT ![t] = Returned(r, r.c)]
          /\ lock' = "free"
          /\ UNCHANGED faults
       \/ /\ st = "exited"
          /\ th' = [th EXCEPT ![t] = [r EXCEPT !.pc = "start"]]
          /\ UNCHANGED <<active_kernels, lock, faults>>
       \/ /\ faults < MaxFaults
          /\ faults' = faults + 1
          /\ active_kernels' = Remove(active_kernels, s)
          /\ th' = [th EXCEPT ![t] = [r EXCEPT !.pc = "create", !.c = 0,
                                               !.replaced = r.c]]
          /\ UNCHANGED lock
    /\ UNCHANGED <<file_bytes, requests, mapVars, docker, session_dirs, envVars, nanoid_count, rp>>

\* main.py:166-176 and 181-183: container.reload() returns
Reload(t) ==
    LET r == th[t]
        s == r.sid
        st == docker[r.c].status
    IN
    /\ r.pc = "reload"
    /\ \/ /\ st = "gone"                      \* NotFound: main.py:168-171
          /\ active_kernels' = Remove(active_kernels, s)
          /\ th' = [th EXCEPT ![t] = [r EXCEPT !.pc = "create", !.c = 0,
                                               !.replaced = r.c,
                                               !.in_handler = TRUE]]
          /\ UNCHANGED <<lock, faults>>
       \/ /\ st = "running"                   \* main.py:173-175
          /\ active_kernels' = Touch(s)
          /\ th' = [th EXCEPT ![t] = Returned(r, r.c)]
          /\ lock' = "free"
          /\ UNCHANGED faults
       \/ /\ st = "exited"                    \* main.py:176-178
          /\ th' = [th EXCEPT ![t] = [r EXCEPT !.pc = "start"]]
          /\ UNCHANGED <<active_kernels, lock, faults>>
       \/ /\ faults < MaxFaults               \* any other error: main.py:181-183
          /\ faults' = faults + 1
          /\ active_kernels' = Remove(active_kernels, s)
          /\ th' = [th EXCEPT ![t] = [r EXCEPT !.pc = "create", !.c = 0,
                                               !.replaced = r.c]]
          /\ UNCHANGED lock
    /\ UNCHANGED <<file_bytes, requests, mapVars, docker, session_dirs, envVars, nanoid_count, rp>>

\* a restart that returns the handle without refreshing its timestamp
StartWithoutTouch(t) ==
    LET r == th[t]
        s == r.sid
    IN
    /\ r.pc = "start"
    /\ \/ /\ docker[r.c].status # "gone"
          /\ docker' = [docker EXCEPT ![r.c].status = "running"]
          /\ UNCHANGED active_kernels
          /\ th' = [th EXCEPT ![t] = Returned(r, r.c)]
          /\ lock' = "free"
          /\ UNCHANGED faults
       \/ /\ \/ docker[r.c].status = "gone"
             \/ faults < MaxFaults
          /\ faults' = IF docker[r.c].status = "gone" THEN faults ELSE faults + 1
          /\ active_kernels' = Remove(active_kernels, s)
          /\ th' = [th EXCEPT ![t] = [r EXCEPT !.pc = "create", !.c = 0,
                                               !.replaced = r.c]]
          /\ UNCHANGED <<lock, docker>>
    /\ UNCHANGED <<file_bytes, requests, mapVars, session_dirs, envVars, nanoid_count, rp>>

\* main.py:178-183: container.start() returns
Start(t) ==
    LET r == th[t]
        s == r.sid
    IN
    /\ r.pc = "start"
    /\ \/ /\ docker[r.c].status # "gone"
          /\ docker' = [docker EXCEPT ![r.c].status = "running"]
          /\ active_kernels' = Touch(s)
          /\ th' = [th EXCEPT ![t] = Returned(r, r.c)]
          /\ lock' = "free"
          /\ UNCHANGED faults
       \/ /\ \/ docker[r.c].status = "gone"
             \/ faults < MaxFaults
          /\ faults' = IF docker[r.c].status = "gone" THEN faults ELSE faults + 1
          /\ active_kernels' = Remove(active_kernels, s)
          /\ th' = [th EXCEPT ![t] = [r EXCEPT !.pc = "create", !.c = 0,
                                               !.replaced = r.c]]
          /\ UNCHANGED <<lock, docker>>
    /\ UNCHANGED <<file_bytes, requests, mapVars, session_dirs, envVars, nanoid_count, rp>>

(***************************************************************************)
(* start_new_container_unlocked (main.py:191-246), the lock held.          *)
(***************************************************************************)
\* a creation that gives the lock up while containers.run is in flight
start_new_container_releasing(t) ==
    LET r == th[t] IN
    /\ r.pc = "create"
    /\ IF CapacityReached(Cardinality(DOMAIN active_kernels))
       THEN /\ th' = [th EXCEPT ![t] = RaisedInCreate(r, "503")]
            /\ UNCHANGED session_dirs
       ELSE /\ th' = [th EXCEPT ![t] = [r EXCEPT !.pc = "run"]]
            /\ session_dirs' = IF volume_mode THEN session_dirs \cup {<<r.sid>>}
                               ELSE session_dirs
    /\ lock' = "free"
    /\ UNCHANGED <<file_bytes, requests, active_kernels, mapVars, docker, envVars, faults, nanoid_count, rp>>

\* main.py:193-217: the capacity test, then the session directory
start_new_container_unlocked(t) ==
    LET r == th[t] IN
    /\ r.pc = "create"
    /\ IF CapacityReached(Cardinality(DOMAIN active_kernels))
       THEN /\ th' = [th EXCEPT ![t] = RaisedInCreate(r, "503")]
            /\ lock' = "free"
            /\ UNCHANGED session_dirs
       ELSE /\ th' = [th EXCEPT ![t] = [r EXCEPT !.pc = "run"]]
            /\ session_dirs' = IF volume_mode THEN session_dirs \cup {<<r.sid>>}
                               ELSE session_dirs
            /\ UNCHANGED lock
    /\ UNCHANGED <<file_bytes, requests, active_kernels, mapVars, docker, envVars, faults, nanoid_count, rp>>

\* a creation whose failing containers.run leaves the function with the lock
\* still held
RunFailureKeepsLock(t) ==
    LET r == th[t]
        h == FreshHandle
    IN
    /\ r.pc = "run"
    /\ \/ /\ h # 0
          /\ docker' = [docker EXCEPT ![h] = Container("running", r.sid, TRUE, {})]
          /\ th' = [th EXCEPT ![t] = [r EXCEPT !.pc = "mkdir", !.c = h]]
          /\ UNCHANGED faults
       \/ /\ \/ h = 0
             \/ faults < MaxFaults
          /\ faults' = IF h = 0 THEN faults ELSE faults + 1
          /\ th' = [th EXCEPT ![t] = RaisedInCreate(r, "500")]
          /\ UNCHANGED docker
    /\ UNCHANGED lock
    /\ UNCHANGED <<file_bytes, requests, active_kernels, mapVars, session_dirs, envVars, nanoid_count, rp>>

\* main.py:219-236 and 244-246: DOCKER_CLIENT.containers.run returns
Run(t) ==
    LET r == th[t]
        h == FreshHandle
    IN
    /\ r.pc = "run"
    /\ \/ /\ h # 0
          /\ docker' = [docker EXCEPT ![h] = Container("running", r.sid, TRUE, {})]
          /\ th' = [th EXCEPT ![t] = [r EXCEPT !.pc = "mkdir", !.c = h]]
          /\ UNCHANGED <<lock, faults>>
       \/ /\ \/ h = 0
             \/ faults < MaxFaults
          /\ faults' = IF h = 0 THEN faults ELSE faults + 1
          /\ th' = [th EXCEPT ![t] = RaisedInCreate(r, "500")]
          /\ lock' = "free"
          /\ UNCHANGED docker
    /\ UNCHANGED <<file_bytes, requests, active_kernels, mapVars, session_dirs, envVars, nanoid_count, rp>>

\* a creation that registers the container before its mkdir has succeeded
MkdirRegistersFirst(t) ==
    LET r == th[t] IN
    /\ r.pc = "mkdir"
    /\ active_kernels' = Put(active_kernels, r.sid,
                             [container |-> r.c, last_accessed |-> now])
    /\ \/ /\ docker[r.c].status = "running"
          /\ th' = [th EXCEPT ![t] = Returned(r, r.c)]
          /\ UNCHANGED faults
       \/ /\ \/ docker[r.c].status # "running"
             \/ faults < MaxFaults
          /\ faults' = IF docker[r.c].status # "running" THEN faults ELSE faults + 1
          /\ th' = [th EXCEPT ![t] = RaisedInCreate(r, "500")]
    /\ lock' = "free"
    /\ UNCHANGED <<file_bytes, requests, mapVars, docker, session_dirs, envVars, nanoid_count, rp>>

\* main.py:238-246: container.exec_run(mkdir) returns
Mkdir(t) ==
    LET r == th[t] IN
    /\ r.pc = "mkdir"
    /\ \/ /\ docker[r.c].status = "running"
          /\ active_kernels' = Put(active_kernels, r.sid,
                                   [container |-> r.c, last_accessed |-> now])
          /\ th' = [th EXCEPT ![t] = Returned(r, r.c)]
          /\ UNCHANGED faults
       \/ /\ \/ docker[r.c].status # "running"
             \/ faults < MaxFaults
          /\ faults' = IF docker[r.c].status # "running" THEN faults ELSE faults + 1
          /\ th' = [th EXCEPT ![t] = RaisedInCreate(r, "500")]
          /\ UNCHANGED active_kernels
    /\ lock' = "free"
    /\ UNCHANGED <<file_bytes, requests, mapVars, docker, session_dirs, envVars, nanoid_count, rp>>

(***************************************************************************)
(* execute_code (main.py:387-451) after its get_or_create_container.       *)
(***************************************************************************)
\* how one _run_with_retry (put_archive, then exec_run of the interpreter;
\* main.py:407-423) on container h can end
AttemptKinds(h) ==
    CASE docker[h].status = "running" ->
            {"ok"} \cup (IF faults < MaxFaults THEN {"api", "other"} ELSE {})
      [] docker[h].status = "exited" -> {"api"}
      [] OTHER -> {"notfound"}

\* main.py:425-445: an attempt returns
Attempt(t) ==
    LET r == th[t] IN
    /\ r.pc = "attempt"
    /\ \E kind \in AttemptKinds(r.container), x \in ExitCodes :
         /\ kind = "ok" \/ x = 0
         /\ faults' = IF kind \in {"api", "other"} /\ docker[r.container].status = "running"
                      THEN faults + 1 ELSE faults
         /\ th' = [th EXCEPT ![t] =
              LET logged == Append(r.log, Event("attempt", r.container, kind,
                                                IF kind = "ok" THEN x ELSE -1))
              IN
              IF kind = "ok"
              THEN [r EXCEPT !.pc = "rm", !.log = logged,
                             !.pending = Outcome("200", x, r.container)]
              ELSE IF ShouldRetry(kind, r.force)
              THEN [r EXCEPT !.pc = "goc", !.force = TRUE, !.log = logged]
              ELSE [r EXCEPT !.pc = "rm", !.log = logged,
                             !.pending = Outcome("500", -1, 0)]]
    /\ UNCHANGED <<file_bytes, requests, active_kernels, lock, mapVars, docker, session_dirs, envVars,
                   nanoid_count, rp>>

\* main.py:446-451: the rm of the finally clause returns and execute_code ends
Rm(t) ==
    LET r == th[t] IN
    /\ r.pc = "rm"
    /\ \E failed \in BOOLEAN :
         /\ failed => (docker[r.container].status # "running" \/ faults < MaxFaults)
         /\ ~failed => docker[r.container].status = "running"
         /\ faults' = IF failed /\ docker[r.container].status = "running"
                      THEN faults + 1 ELSE faults
         /\ th' = [th EXCEPT ![t] =
                     [r EXCEPT !.pc = "done",
                               !.outcome = AfterCleanup(r.pending, failed),
                               !.log = Append(@, Event("rm", r.container,
                                                       IF failed THEN "fail" ELSE "ok", -1))]]
    /\ UNCHANGED <<file_bytes, requests, active_kernels, lock, mapVars, docker, session_dirs, envVars,
                   nanoid_count, rp>>

(***************************************************************************)
(* Startup (main.py:486-491) and recover_containers (main.py:248-271).     *)
(***************************************************************************)
\* the containers DOCKER_CLIENT.containers.list(all=True, ...) returns
Listed ==
    {h \in Handles : docker[h].status \in {"running", "exited"} /\ docker[h].managed}

\* an adoption in which a later container replaces the entry of its label
AdoptedLastWins(listing) ==
    LET labels == ({docker[h].session_id : h \in listing} \ {""})
                    \ DOMAIN active_kernels
        last(s) == CHOOSE h \in listing :
                      /\ docker[h].session_id = s
                      /\ \A g \in listing : docker[g].session_id = s => g <= h
    IN [s \in labels \cup DOMAIN active_kernels |->
          IF s \in DOMAIN active_kernels THEN active_kernels[s]
          ELSE [container |-> last(s), last_accessed |-> now]]

\* main.py:256-266: the entries adopted from a listing, the first container
\* listed for a session_id winning
Adopted(listing) ==
    LET labels == ({docker[h].session_id : h \in listing} \ {""})
                    \ DOMAIN active_kernels
        first(s) == CHOOSE h \in listing :
                       /\ docker[h].session_id = s
                       /\ \A g \in listing : docker[g].session_id = s => h <= g
    IN [s \in labels \cup DOMAIN active_kernels |->
          IF s \in DOMAIN active_kernels THEN active_kernels[s]
          ELSE [container |-> first(s), last_accessed |-> now]]

recover_containers ==
    /\ ~started
    /\ lock = "free"
    /\ started' = TRUE
    /\ \/ active_kernels' = Adopted(Listed)
       \/ UNCHANGED active_kernels            \* the listing raised: main.py:270
    /\ UNCHANGED <<file_bytes, requests, lock, mapVars, docker, session_dirs, volume_mode, data_dir_internal, now,
                   faults, nanoid_count, th, rp>>

(***************************************************************************)
(* The environment: the clock, and containers ending on their own          *)
(* (remove=True, main.py:223: a container that stops is removed).          *)
(***************************************************************************)
Tick ==
    /\ now < MaxTime
    /\ rp.pc = "sleep"
    /\ now' = now + 1
    /\ UNCHANGED <<file_bytes, requests, active_kernels, lock, mapVars, docker, session_dirs, volume_mode,
                   data_dir_internal, faults, nanoid_count, started, th, rp>>

ContainerDies(h) ==
    /\ docker[h].status = "running"
    /\ docker' = [docker EXCEPT ![h].status = "gone"]
    /\ UNCHANGED <<file_bytes, requests, active_kernels, lock, mapVars, session_dirs, envVars, faults,
                   nanoid_count, th, rp>>

(***************************************************************************)
(* cleanup_sessions (main.py:273-305), one sweep of cleanup_loop.          *)
(* selected, processed, popped, stops and failed record the sweep under    *)
(* way; they are dropped when it ends.                                     *)
(***************************************************************************)
\* an expiry test that takes a session idle for exactly the TTL
ExpiredInclusive(t, last_accessed) == t - last_accessed >= RCE_SESSION_TTL

\* main.py:279
Expired(t, last_accessed) == t - last_accessed > RCE_SESSION_TTL

\* main.py:275-280: the scan under the lock
Scan ==
    LET sel == {s \in DOMAIN active_kernels :
                  Expired(now, active_kernels[s].last_accessed)}
    IN
    /\ started
    /\ rp.pc = "sleep"
    /\ lock = "free"
    /\ rp' = [InitReaper EXCEPT !.pc = IF sel = {} THEN "sleep" ELSE "loop",
                                !.to_delete = sel, !.selected = sel]
    /\ UNCHANGED <<file_bytes, requests, active_kernels, lock, mapVars, docker, session_dirs, envVars,
                   faults, nanoid_count, th>>

\* a pop that leaves the file-id map of the session behind
PopKeepsFileMap(s) ==
    LET nano == IF s \in DOMAIN session_to_nanoid THEN session_to_nanoid[s] ELSE ""
        data == IF s \in DOMAIN active_kernels THEN active_kernels[s].container ELSE 0
    IN
    /\ rp.pc = "loop"
    /\ s \in rp.to_delete
    /\ lock = "free"
    /\ session_to_nanoid' = Remove(session_to_nanoid, s)
    /\ nanoid_to_session' = Remove(nanoid_to_session, nano)
    /\ active_kernels' = Remove(active_kernels, s)
    /\ rp' = [rp EXCEPT !.pc = "rmtree", !.cur = s, !.data = data,
                        !.to_delete = @ \ {s}, !.processed = @ \cup {s},
                        !.popped = @ \cup ({data} \ {0})]
    /\ UNCHANGED <<file_bytes, requests, lock, file_id_map, docker, session_dirs, envVars, faults,
                   nanoid_count, th>>

\* main.py:285-292: the mappings and the entry of one selected session are
\* popped in one critical section
Pop(s) ==
    LET nano == IF s \in DOMAIN session_to_nanoid THEN session_to_nanoid[s] ELSE ""
        data == IF s \in DOMAIN active_kernels THEN active_kernels[s].container ELSE 0
    IN
    /\ rp.pc = "loop"
    /\ s \in rp.to_delete
    /\ lock = "free"
    /\ session_to_nanoid' = Remove(session_to_nanoid, s)
    /\ nanoid_to_session' = Remove(nanoid_to_session, nano)
    /\ file_id_map' = Remove(file_id_map, nano)
    /\ active_kernels' = Remove(active_kernels, s)
    /\ rp' = [rp EXCEPT !.pc = "rmtree", !.cur = s, !.data = data,
                        !.to_delete = @ \ {s}, !.processed = @ \cup {s},
                        !.popped = @ \cup ({data} \ {0})]
    /\ UNCHANGED <<file_bytes, requests, lock, docker, session_dirs, envVars, faults, nanoid_count, th>>

\* a loop that a sweep with a failed stop brings to an end
NextSessionHalts(r) ==
    IF r.to_delete = {}
    THEN IF r.failed # {} THEN [r EXCEPT !.pc = "halted"] ELSE InitReaper
    ELSE [r EXCEPT !.pc = "loop", !.cur = "", !.data = 0]

\* where the loop of main.py:282 goes after one session
NextSession(r) ==
    IF r.to_delete = {} THEN InitReaper
    ELSE [r EXCEPT !.pc = "loop", !.cur = "", !.data = 0]

\* main.py:295-302: the session directory is removed, then stop is requested
Rmtree ==
    /\ rp.pc = "rmtree"
    /\ session_dirs' = IF data_dir_internal
                       THEN {p \in session_dirs : p[1] # rp.cur}
                       ELSE session_dirs
    /\ file_bytes' = IF data_dir_internal
                     THEN [p \in {q \in DOMAIN file_bytes : q[1] # rp.cur} |-> file_bytes[p]]
                     ELSE file_bytes
    /\ rp' = IF rp.data # 0
             THEN [rp EXCEPT !.pc = "stop", !.stops = @ \cup {rp.data}]
             ELSE NextSession(rp)
    /\ UNCHANGED <<requests, active_kernels, lock, mapVars, docker, envVars, faults,
                   nanoid_count, th>>

\* a sweep that a failing stop ends
AfterStopAborts(r, raised) ==
    IF raised THEN InitReaper ELSE NextSession(r)

\* main.py:302-305: what the loop does once container.stop has returned or
\* raised
AfterStop(r, raised) ==
    NextSession(IF raised THEN [r EXCEPT !.failed = @ \cup {r.data}] ELSE r)

\* main.py:302-305: container.stop(timeout=5) returns
Stop ==
    /\ rp.pc = "stop"
    /\ \/ /\ docker[rp.data].status # "gone"
          /\ docker' = [docker EXCEPT ![rp.data].status =
                           IF @ = "running" THEN "gone" ELSE @]
          /\ rp' = AfterStop(rp, FALSE)
          /\ UNCHANGED faults
       \/ /\ \/ docker[rp.data].status = "gone"
             \/ faults < MaxFaults
          /\ faults' = IF docker[rp.data].status = "gone" THEN faults ELSE faults + 1
          /\ rp' = AfterStop(rp, TRUE)
          /\ UNCHANGED docker
    /\ UNCHANGED <<file_bytes, requests, active_kernels, lock, mapVars, session_dirs, envVars,
                   nanoid_count, th>>

(***************************************************************************)
(* The files of a session and the file-id map.                             *)
(***************************************************************************)
\* what /mnt/data of container h holds: the session directory bound into it
\* in volume mode (main.py:211-217), its own file system otherwise
Workspace(h) ==
    IF volume_mode
    THEN {Tail(p) : p \in {q \in session_dirs :
                             Len(q) > 1 /\ q[1] = docker[h].session_id}}
    ELSE docker[h].files

\* where the bytes of file `name` of container h's /mnt/data are kept: in
\* the session directory in volume mode, in the container otherwise
Place(h, name) ==
    IF volume_mode THEN <<docker[h].session_id>> \o name ELSE <<ToString(h)>> \o name

\* the bytes of the file at a place; a file an earlier process left holds
\* OldBytes
OldBytes == <<0>>
Bytes(place) == IF place \in DOMAIN file_bytes THEN file_bytes[place] ELSE OldBytes

\* a tar header that leaves the size at 0
TarInfoNoSize(name, size) == [name |-> name, size |-> 0]

\* tarfile.TarInfo(name) with its size set (main.py:335-336)
TarInfo(name, size) == [name |-> name, size |-> size]

\* tar.addfile(tar_info, fileobj) (main.py:337): the member holds the first
\* tar_info.size bytes of fileobj
AddFile(tar, tar_info, bytes) ==
    Append(tar, [name |-> tar_info.name, size |-> tar_info.size,
                 data |-> SubSeq(bytes, 1, tar_info.size)])

\* container.get_archive of one file (main.py:361): a tar with that file
\* as its only member
get_archive(h, name) ==
    <<[name |-> name, size |-> Len(Bytes(Place(h, name))),
       data |-> Bytes(Place(h, name))]>>

\* os.path.exists(p) for a path under RCE_DATA_DIR_INTERNAL (main.py:351,
\* 713): the session directory it starts from exists and so does the place
\* it leads to
Exists(p) ==
    /\ ~IsAbsolute(p)
    /\ <<p[1]>> \in session_dirs
    /\ Normalize(<<>>, p) \in session_dirs

\* main.py:542-547 and 620-625: the file-id map of a session once filename f
\* has been observed, `fresh` being the id generate_nanoid would return
ObservedAlwaysMints(id_map, f, fresh) == Put(id_map, fresh, f)
Observed(id_map, f, fresh) ==
    IF \E k \in DOMAIN id_map : id_map[k] = f THEN id_map ELSE Put(id_map, fresh, f)

\* the thread has raised `code` out of its endpoint
Fails(r, code) ==
    [r EXCEPT !.pc = "done", !.outcome = Outcome(Reported(r.op, code), -1, 0)]

\* the endpoint returns its response
Succeeds(r) == [r EXCEPT !.pc = "done", !.outcome = Outcome("200", @.exit, r.container)]

(***************************************************************************)
(* wrap_code (main.py:49-104).  Code is what ast.parse makes of it:        *)
(* whether it parses, and the statements of the module body, each with its *)
(* kind (ast.Expr, ast.Assign, ...), its target and its value; form tells  *)
(* the text as sent from the text ast.unparse writes.                      *)
(***************************************************************************)
Statement(kind, target, value) == [kind |-> kind, target |-> target, value |-> value]

\* a transform that rewrites the last statement whatever it is
wrap_any_statement(code) ==
    IF ~code.parses \/ code.body = <<>> THEN code
    ELSE LET last_node == code.body[Len(code.body)]
         IN [code EXCEPT !.form = "unparsed",
                         !.body = SubSeq(@, 1, Len(@) - 1) \o
                                  <<Statement("Assign", "__last_res__", last_node.value),
                                    Statement("If", "__last_res__ is not None",
                                              "print(repr(__last_res__))")>>]

\* main.py:54-104
wrap_code(code) ==
    IF ~code.parses THEN code                       \* ast.parse raised
    ELSE IF code.body = <<>> THEN code
    ELSE LET last_node == code.body[Len(code.body)]
             assign_node == Statement("Assign", "__last_res__", last_node.value)
             if_node == Statement("If", "__last_res__ is not None",
                                  "print(repr(__last_res__))")
         IN IF last_node.kind = "Expr"
            THEN [code EXCEPT !.form = "unparsed",
                              !.body = SubSeq(@, 1, Len(@) - 1) \o <<assign_node, if_node>>]
            ELSE code

(***************************************************************************)
(* list_files (main.py:378-385).  The output of ls is the sequence of its  *)
(* tokens: runs of characters other than the line break, and line breaks.  *)
(***************************************************************************)
\* str.splitlines (main.py:383): the lines between the line breaks; a line
\* break at the end opens no further line
RECURSIVE splitlines(_)
splitlines(out) ==
    IF out = <<>> THEN <<>>
    ELSE IF \A i \in DOMAIN out : out[i] # "\n" THEN <<Concat(out)>>
    ELSE LET brk == CHOOSE i \in DOMAIN out :
                        out[i] = "\n" /\ \A j \in 1..(i - 1) : out[j] # "\n"
         IN <<Concat(SubSeq(out, 1, brk - 1))>> \o splitlines(SubSeq(out, brk + 1, Len(out)))

\* a list_files that reads the output whatever the exit status
list_files_any_status(res) ==
    SelectSeq(splitlines(res.output), LAMBDA f : f # "")

\* main.py:382-385: what list_files returns for the result of its exec_run
list_files(res) ==
    IF res.exit_code = 0
    THEN SelectSeq(splitlines(res.output), LAMBDA f : f # "")
    ELSE <<>>

\* the output of `ls -1 /mnt/data` (main.py:381) for a workspace: each name
\* on a line of its own
RECURSIVE LsOutput(_)
LsOutput(names) ==
    IF names = {} THEN <<>>
    ELSE LET f == CHOOSE g \in names : TRUE
         IN <<f[1], "\n">> \o LsOutput(names \ {f})

\* the exit status of an ls that found no /mnt/data
LsFailed == 2

(***************************************************************************)
(* run_code after execute_code (main.py:527-562).                          *)
(***************************************************************************)
\* main.py:527-530: execute_code has returned a result and run_code goes on
\* to list_files
AfterExecute(t) ==
    LET r == th[t] IN
    /\ r.pc = "done"
    /\ r.op = "exec"
    /\ r.outcome.code = "200"
    /\ th' = [th EXCEPT ![t] = [r EXCEPT !.pc = "goc", !.op = "exec_ls",
                                         !.force = FALSE, !.log = <<>>]]
    /\ UNCHANGED <<file_bytes, requests, active_kernels, lock, mapVars, docker, session_dirs,
                   envVars, faults, nanoid_count, rp>>

\* main.py:381-385: the exec_run of ls returns; list_session_files then
\* builds its response (main.py:655-667), run_code goes on to the file ids
Ls(t) ==
    LET r == th[t]
        Names(res) == {<<list_files(res)[i]>> : i \in DOMAIN list_files(res)}
        After(res) ==
            IF r.op = "list"
            THEN Succeeds([r EXCEPT !.res = res, !.files = Names(res)])
            ELSE [r EXCEPT !.pc = "filemap_init", !.res = res, !.files = Names(res)]
    IN
    /\ r.pc = "ls"
    /\ \/ /\ docker[r.container].status # "running"
          /\ th' = [th EXCEPT ![t] = Fails(r, "APIError")]
          /\ UNCHANGED faults
       \/ /\ docker[r.container].status = "running"
          /\ th' = [th EXCEPT ![t] =
                      After([exit_code |-> 0,
                             output |-> LsOutput(Workspace(r.container))])]
          /\ UNCHANGED faults
       \/ /\ docker[r.container].status = "running"
          /\ faults < MaxFaults
          /\ faults' = faults + 1
          /\ th' = [th EXCEPT ![t] = After([exit_code |-> LsFailed, output |-> <<>>])]
    /\ UNCHANGED <<file_bytes, requests, active_kernels, lock, mapVars, docker, session_dirs,
                   envVars, nanoid_count, rp>>

\* main.py:534-536
InitFileMap(t) ==
    LET r == th[t] IN
    /\ r.pc = "filemap_init"
    /\ lock = "free"
    /\ file_id_map' = IF r.nanoid \in DOMAIN file_id_map THEN file_id_map
                      ELSE Put(file_id_map, r.nanoid, EmptyMap)
    /\ th' = [th EXCEPT ![t].pc = "filemap"]
    /\ UNCHANGED <<file_bytes, requests, active_kernels, lock, session_to_nanoid, nanoid_to_session,
                   docker, session_dirs, envVars, faults, nanoid_count, rp>>

\* main.py:538-562: one turn of the loop over current_files, each in its own
\* critical section, then the response
MapFile(t) ==
    LET r == th[t]
        f == CHOOSE g \in r.files : TRUE
        fresh == Nanoid(nanoid_count + 1)
    IN
    /\ r.pc = "filemap"
    /\ r.op = "exec_ls"
    /\ lock = "free"
    /\ IF r.files = {}
       THEN /\ th' = [th EXCEPT ![t] = Succeeds(r)]
            /\ UNCHANGED <<file_id_map, nanoid_count>>
       ELSE IF r.nanoid \notin DOMAIN file_id_map      \* KeyError at main.py:542
       THEN /\ th' = [th EXCEPT ![t] = Fails(r, "KeyError")]
            /\ UNCHANGED <<file_id_map, nanoid_count>>
       ELSE /\ file_id_map' = [file_id_map EXCEPT ![r.nanoid] = Observed(@, f, fresh)]
            /\ nanoid_count' = IF file_id_map' = file_id_map THEN nanoid_count
                               ELSE nanoid_count + 1
            /\ th' = [th EXCEPT ![t].files = @ \ {f}]
    /\ UNCHANGED <<file_bytes, requests, active_kernels, lock, session_to_nanoid, nanoid_to_session,
                   docker, session_dirs, envVars, faults, rp>>

(***************************************************************************)
(* GET /files/{session_id}: list_session_files (main.py:647-667).          *)
(***************************************************************************)
\* main.py:652: the request arrives and its id is resolved
list_session_files(t, id) ==
    /\ started
    /\ requests[t] > 0
    /\ requests' = [requests EXCEPT ![t] = @ - 1]
    /\ th[t].pc = "idle"
    /\ lock = "free"
    /\ th' = [th EXCEPT ![t] =
                [InitThread EXCEPT !.pc = "goc", !.op = "list", !.raw = id,
                                   !.client = sanitize_id(id),
                                   !.sid = resolve_session_id(<<sanitize_id(id)>>)]]
    /\ UNCHANGED <<file_bytes, active_kernels, lock, mapVars, docker, session_dirs, envVars,
                   faults, nanoid_count, rp>>

(***************************************************************************)
(* POST /upload: upload_files (main.py:565-645) with upload_file           *)
(* (main.py:317-340), one file per request.                                *)
(***************************************************************************)
\* main.py:578-593: the request arrives and its id is resolved; client is
\* the id as sent (sid), which main.py:597 compares with the resolved one
upload_files(t, id, f, content) ==
    /\ started
    /\ requests[t] > 0
    /\ requests' = [requests EXCEPT ![t] = @ - 1]
    /\ th[t].pc = "idle"
    /\ lock = "free"
    /\ th' = [th EXCEPT ![t] =
                [InitThread EXCEPT !.pc = "upload_mint", !.op = "upload", !.raw = id,
                                   !.client = Concat(id), !.filename = f,
                                   !.content = content,
                                   !.sid = resolve_session_id(<<sanitize_id(id)>>)]]
    /\ UNCHANGED <<file_bytes, active_kernels, lock, mapVars, docker, session_dirs, envVars,
                   faults, nanoid_count, rp>>

\* an upload that records the public id of its new session in one table only
UploadMintOneWay(t) ==
    LET r == th[t]
        sid == r.client
        internal_uuid == Uuid(nanoid_count + 1)
        mint == r.sid = sid /\ sid \notin DOMAIN nanoid_to_session
        real == IF r.sid # sid THEN r.sid
                ELSE IF mint THEN internal_uuid ELSE nanoid_to_session[sid]
    IN
    /\ r.pc = "upload_mint"
    /\ lock = "free"
    /\ IF mint
       THEN /\ nanoid_to_session' = Put(nanoid_to_session, sid, internal_uuid)
            /\ nanoid_count' = nanoid_count + 1
            /\ UNCHANGED session_to_nanoid
       ELSE UNCHANGED <<nanoid_to_session, session_to_nanoid, nanoid_count>>
    /\ th' = [th EXCEPT ![t] =
                [r EXCEPT !.pc = "upload_file", !.sid = real,
                          !.nanoid = IF real \in DOMAIN session_to_nanoid'
                                     THEN session_to_nanoid'[real] ELSE sid]]
    /\ UNCHANGED <<file_bytes, requests, active_kernels, lock, file_id_map, docker, session_dirs,
                   envVars, faults, rp>>

\* main.py:596-608
UploadMint(t) ==
    LET r == th[t]
        sid == r.client
        internal_uuid == Uuid(nanoid_count + 1)
        mint == r.sid = sid /\ sid \notin DOMAIN nanoid_to_session
        real == IF r.sid # sid THEN r.sid
                ELSE IF mint THEN internal_uuid ELSE nanoid_to_session[sid]
    IN
    /\ r.pc = "upload_mint"
    /\ lock = "free"
    /\ IF mint
       THEN /\ nanoid_to_session' = Put(nanoid_to_session, sid, internal_uuid)
            /\ session_to_nanoid' = Put(session_to_nanoid, internal_uuid, sid)
            /\ nanoid_count' = nanoid_count + 1
       ELSE UNCHANGED <<nanoid_to_session, session_to_nanoid, nanoid_count>>
    /\ th' = [th EXCEPT ![t] =
                [r EXCEPT !.pc = "upload_file", !.sid = real,
                          !.nanoid = IF real \in DOMAIN session_to_nanoid'
                                     THEN session_to_nanoid'[real] ELSE sid]]
    /\ UNCHANGED <<file_bytes, requests, active_kernels, lock, file_id_map, docker, session_dirs,
                   envVars, faults, rp>>

\* main.py:319-332: the filename is reduced to its base; in volume mode the
\* file is written to the session directory; then get_or_create_container
upload_file(t) ==
    LET r == th[t]
        safe_filename == basename(r.filename)
        session_dir == <<r.sid>>
    IN
    /\ r.pc = "upload_file"
    /\ IF IsEmptyName(safe_filename)
       THEN /\ th' = [th EXCEPT ![t] = Fails([r EXCEPT !.safe = safe_filename], "400")]
            /\ UNCHANGED <<session_dirs, file_bytes>>
       ELSE /\ th' = [th EXCEPT ![t] = [r EXCEPT !.pc = "goc", !.safe = safe_filename]]
            /\ session_dirs' =
                 IF volume_mode
                 THEN session_dirs \cup
                        {session_dir, Normalize(<<>>, PathJoin(session_dir, safe_filename))}
                 ELSE session_dirs
            /\ file_bytes' =
                 IF volume_mode
                 THEN Put(file_bytes, Normalize(<<>>, PathJoin(session_dir, safe_filename)),
                          r.content)
                 ELSE file_bytes
    /\ UNCHANGED <<requests, active_kernels, lock, mapVars, docker, envVars, faults,
                   nanoid_count, rp>>

\* main.py:333-340: put_archive returns (the daemon copies into a stopped
\* container as well)
PutArchive(t) ==
    LET r == th[t]
        tar == AddFile(<<>>, TarInfo(r.safe, Len(r.content)), r.content)
    IN
    /\ r.pc = "put"
    /\ IF docker[r.container].status \in {"running", "exited"}
       THEN /\ docker' = [docker EXCEPT ![r.container].files =
                                          @ \cup {tar[i].name : i \in DOMAIN tar}]
            /\ file_bytes' = Put(file_bytes, Place(r.container, tar[1].name), tar[1].data)
            /\ th' = [th EXCEPT ![t].pc = "filemap"]
       ELSE /\ th' = [th EXCEPT ![t] = Fails(r, "NotFound")]
            /\ UNCHANGED <<docker, file_bytes>>
    /\ UNCHANGED <<requests, active_kernels, lock, mapVars, session_dirs, envVars,
                   faults, nanoid_count, rp>>

\* main.py:616-640: the id of the uploaded file, under the name the client
\* sent (f.filename), and the response
UploadMap(t) ==
    LET r == th[t]
        fresh == Nanoid(nanoid_count + 1)
        id_map == IF r.nanoid \in DOMAIN file_id_map THEN file_id_map[r.nanoid]
                  ELSE EmptyMap
    IN
    /\ r.pc = "filemap"
    /\ r.op = "upload"
    /\ lock = "free"
    /\ file_id_map' = Put(file_id_map, r.nanoid, Observed(id_map, r.filename, fresh))
    /\ nanoid_count' = IF Observed(id_map, r.filename, fresh) = id_map THEN nanoid_count
                       ELSE nanoid_count + 1
    /\ th' = [th EXCEPT ![t] = Succeeds(r)]
    /\ UNCHANGED <<file_bytes, requests, active_kernels, lock, session_to_nanoid, nanoid_to_session,
                   docker, session_dirs, envVars, faults, rp>>

(***************************************************************************)
(* GET /download/{session_id}/{filename}: download_session_file            *)
(* (main.py:685-743) with download_file (main.py:342-376).                 *)
(***************************************************************************)
\* main.py:697-707: the request arrives; session id and file id are
\* resolved in one critical section.  safe holds real_filename.
download_session_file(t, id, f) ==
    LET s_session_id == sanitize_id(id)
        s_filename == basename(f)
        real_session_id == IF s_session_id \in DOMAIN nanoid_to_session
                           THEN nanoid_to_session[s_session_id] ELSE s_session_id
        real_filename ==
            IF /\ s_session_id \in DOMAIN file_id_map
               /\ s_filename[1] \in DOMAIN file_id_map[s_session_id]
            THEN file_id_map[s_session_id][s_filename[1]]
            ELSE s_filename
    IN
    /\ started
    /\ requests[t] > 0
    /\ requests' = [requests EXCEPT ![t] = @ - 1]
    /\ th[t].pc = "idle"
    /\ lock = "free"
    /\ th' = [th EXCEPT ![t] =
                [InitThread EXCEPT !.pc = "open", !.op = "download", !.raw = id,
                                   !.client = s_session_id, !.filename = f,
                                   !.sid = real_session_id, !.safe = real_filename]]
    /\ UNCHANGED <<file_bytes, active_kernels, lock, mapVars, docker, session_dirs, envVars,
                   faults, nanoid_count, rp>>

\* main.py:710-743: with RCE_DATA_DIR_INTERNAL set the file is served from
\* the session directory; path is the place the path built leads to
Open(t) ==
    LET r == th[t]
        filepath == PathJoin(<<r.sid>>, r.safe)
    IN
    /\ r.pc = "open"
    /\ th' = [th EXCEPT ![t] =
                IF ~data_dir_internal THEN [r EXCEPT !.pc = "download_file"]
                ELSE IF Exists(filepath)
                THEN Succeeds([r EXCEPT !.path = Normalize(<<>>, filepath),
                                        !.content = Bytes(Normalize(<<>>, filepath))])
                ELSE Fails(r, "404")]
    /\ UNCHANGED <<file_bytes, requests, active_kernels, lock, mapVars, docker, session_dirs,
                   envVars, faults, nanoid_count, rp>>

\* main.py:344-358: download_file, up to its get_or_create_container
download_file(t) ==
    LET r == th[t]
        safe_filename == basename(r.safe)
        filepath == PathJoin(<<r.sid>>, safe_filename)
    IN
    /\ r.pc = "download_file"
    /\ th' = [th EXCEPT ![t] =
                IF IsEmptyName(safe_filename)
                THEN Fails([r EXCEPT !.safe = safe_filename], "400")
                ELSE IF ~volume_mode
                THEN [r EXCEPT !.pc = "goc", !.safe = safe_filename]
                ELSE IF Exists(filepath)
                THEN Succeeds([r EXCEPT !.safe = safe_filename,
                                        !.path = Normalize(<<>>, filepath),
                                        !.content = Bytes(Normalize(<<>>, filepath))])
                ELSE Fails([r EXCEPT !.safe = safe_filename], "FileNotFoundError")]
    /\ UNCHANGED <<file_bytes, requests, active_kernels, lock, mapVars, docker, session_dirs,
                   envVars, faults, nanoid_count, rp>>

\* main.py:359-376: get_archive returns; whatever goes wrong is a 404
GetArchive(t) ==
    LET r == th[t]
        members == get_archive(r.container, r.safe)
    IN
    /\ r.pc = "get"
    /\ th' = [th EXCEPT ![t] =
                IF /\ docker[r.container].status \in {"running", "exited"}
                   /\ r.safe \in Workspace(r.container)
                THEN Succeeds([r EXCEPT !.path = <<r.sid>> \o r.safe,
                                        !.content = members[1].data])
                ELSE Fails(r, "404")]
    /\ UNCHANGED <<file_bytes, requests, active_kernels, lock, mapVars, docker, session_dirs,
                   envVars, faults, nanoid_count, rp>>

\* the response of a request other than an /exec still to list its files is
\* sent and the thread is free for the next request
Finish(t) ==
    /\ th[t].pc = "done"
    /\ ~(th[t].op = "exec" /\ th[t].outcome.code = "200")
    /\ th' = [th EXCEPT ![t] = InitThread]
    /\ UNCHANGED <<file_bytes, requests, active_kernels, lock, mapVars, docker, session_dirs,
                   envVars, faults, nanoid_count, rp>>

(***************************************************************************)
(* The specification.                                                      *)
(***************************************************************************)
Next ==
    \/ recover_containers
    \/ Tick
    \/ \E h \in Handles : ContainerDies(h)
    \/ \E t \in Threads, client \in SessionIds \cup DOMAIN nanoid_to_session :
          BeginExec(t, client)
    \/ \E t \in Threads : Resolve(t)
    \/ \E t \in Threads : Mint(t)
    \/ \E t \in Threads : get_or_create_container(t)
    \/ \E t \in Threads : Reload(t)
    \/ \E t \in Threads : Start(t)
    \/ \E t \in Threads : start_new_container_unlocked(t)
    \/ \E t \in Threads : Run(t)
    \/ \E t \in Threads : Mkdir(t)
    \/ \E t \in Threads : Attempt(t)
    \/ \E t \in Threads : Rm(t)
    \/ \E t \in Threads : Respond(t)
    \/ Scan
    \/ \E s \in SessionIds : Pop(s)
    \/ Rmtree
    \/ Stop

Spec == Init /\ [][Next]_vars

(***************************************************************************)
(* FileSpec: one client using every endpoint in turn (/exec with its file  *)
(* ids, /upload, /download, /files) next to the reaper, under each         *)
(* configuration of the data directories, with one transient executor      *)
(* failure at most.  The daemon may hold containers left by an earlier process,    *)
(* and in volume mode the data directory may hold the directory such a     *)
(* process left for session s2.                                            *)
(***************************************************************************)
\* (RCE_DATA_DIR_HOST set, RCE_DATA_DIR_INTERNAL set): the default, volume
\* mode, and archive mode with the internal directory unset too
Configs == {<<FALSE, TRUE>>, <<TRUE, TRUE>>, <<FALSE, FALSE>>, <<TRUE, FALSE>>}

FileLeftovers ==
    { <<>>,
      <<Container("exited", "s1", TRUE, {}), Container("running", "s2", FALSE, {})>>,
      <<Container("running", "s1", TRUE, {<<"a.txt">>}),
        Container("running", "", TRUE, {}),
        Container("exited", "s1", TRUE, {})>> }

LeftDirs == {<<"s2">>, <<"s2", "a.txt">>}

\* the ids and filenames the client sends: any text in a body or a form
\* (main.py:513, 578-579), one non-empty "/"-free segment in a path parameter
\* of the download route (main.py:685-686)
FileIds == {<<"s1">>, <<".", ".", "s1">>}
FileNames == {<<"a.txt">>, <<"..", "s2", "a.txt">>, <<"d", "">>}
PathNames == {<<"a.txt">>}
Contents == {<<>>, <<1, 2>>}
ClientIds == FileIds \cup {<<n>> : n \in DOMAIN nanoid_to_session}
KnownFileIds == UNION {DOMAIN file_id_map[n] : n \in DOMAIN file_id_map}

FileInit ==
    /\ active_kernels = EmptyMap
    /\ lock = "free"
    /\ session_to_nanoid = EmptyMap
    /\ nanoid_to_session = EmptyMap
    /\ file_id_map = EmptyMap
    /\ \E left \in FileLeftovers :
         docker = [h \in Handles |-> IF h <= Len(left) THEN left[h] ELSE Unborn]
    /\ \E cfg \in Configs :
         /\ volume_mode = cfg[1]
         /\ data_dir_internal = cfg[2]
    /\ session_dirs = IF volume_mode THEN LeftDirs ELSE {}
    /\ file_bytes = EmptyMap
    /\ now = 0
    /\ faults = MaxFaults - 1
    /\ nanoid_count = 0
    /\ started = FALSE
    /\ requests = [t \in Threads |-> IF t = "t1" THEN MaxFileRequests ELSE 0]
    /\ th = [t \in Threads |-> InitThread]
    /\ rp = InitReaper

FileNext ==
    \/ recover_containers
    \/ Tick
    \/ \E t \in Threads, id \in ClientIds : BeginExec(t, sanitize_id(id))
    \/ \E t \in Threads, id \in ClientIds : list_session_files(t, id)
    \/ \E t \in Threads, id \in ClientIds, f \in FileNames, content \in Contents :
          upload_files(t, id, f, content)
    \/ \E t \in Threads, id \in ClientIds,
           f \in PathNames \cup {<<k>> : k \in KnownFileIds} :
          download_session_file(t, id, f)
    \/ \E t \in Threads : Resolve(t)
    \/ \E t \in Threads : Mint(t)
    \/ \E t \in Threads : get_or_create_container(t)
    \/ \E t \in Threads : Reload(t)
    \/ \E t \in Threads : Start(t)
    \/ \E t \in Threads : start_new_container_unlocked(t)
    \/ \E t \in Threads : Run(t)
    \/ \E t \in Threads : Mkdir(t)
    \/ \E t \in Threads : Attempt(t)
    \/ \E t \in Threads : Rm(t)
    \/ \E t \in Threads : AfterExecute(t)
    \/ \E t \in Threads : Ls(t)
    \/ \E t \in Threads : InitFileMap(t)
    \/ \E t \in Threads : MapFile(t)
    \/ \E t \in Threads : UploadMint(t)
    \/ \E t \in Threads : upload_file(t)
    \/ \E t \in Threads : PutArchive(t)
    \/ \E t \in Threads : UploadMap(t)
    \/ \E t \in Threads : Open(t)
    \/ \E t \in Threads : download_file(t)
    \/ \E t \in Threads : GetArchive(t)
    \/ \E t \in Threads : Finish(t)
    \/ Scan
    \/ \E s \in DOMAIN active_kernels \cup rp.to_delete : Pop(s)
    \/ Rmtree
    \/ Stop

FileSpec == FileInit /\ [][FileNext]_vars

(***************************************************************************)
(* PairSpec: two clients sending one /exec request each, to the same       *)
(* session or to different ones, next to the reaper, under the default     *)
(* configuration and with no transient executor failure.  The daemon may   *)
(* hold a running container left for s1, with a file in its workspace.     *)
(***************************************************************************)
PairLeftovers == { <<>>, <<Container("running", "s1", TRUE, {<<"a.txt">>})>> }
PairIds == {"s1", "s2"}
PairNames == {<<"a.txt">>, <<"..", "a.txt">>}

PairInit ==
    /\ active_kernels = EmptyMap
    /\ lock = "free"
    /\ session_to_nanoid = EmptyMap
    /\ nanoid_to_session = EmptyMap
    /\ file_id_map = EmptyMap
    /\ \E left \in PairLeftovers :
         docker = [h \in Handles |-> IF h <= Len(left) THEN left[h] ELSE Unborn]
    /\ session_dirs = {}
    /\ file_bytes = EmptyMap
    /\ volume_mode = FALSE
    /\ data_dir_internal = TRUE
    /\ now = 0
    /\ faults = MaxFaults
    /\ nanoid_count = 0
    /\ started = FALSE
    /\ requests = [t \in Threads |-> MaxRequests]
    /\ th = [t \in Threads |-> InitThread]
    /\ rp = InitReaper

PairNext ==
    \/ recover_containers
    \/ Tick
    \/ \E t \in Threads, client \in PairIds \cup DOMAIN nanoid_to_session :
          BeginExec(t, client)
    \/ \E t \in Threads, client \in PairIds, f \in PairNames :
          upload_files(t, <<client>>, f, <<1, 2>>)
    \/ \E t \in Threads : UploadMint(t)
    \/ \E t \in Threads : upload_file(t)
    \/ \E t \in Threads : PutArchive(t)
    \/ \E t \in Threads : UploadMap(t)
    \/ \E t \in Threads : Resolve(t)
    \/ \E t \in Threads : Mint(t)
    \/ \E t \in Threads : get_or_create_container(t)
    \/ \E t \in Threads : start_new_container_unlocked(t)
    \/ \E t \in Threads : Run(t)
    \/ \E t \in Threads : Mkdir(t)
    \/ \E t \in Threads : Attempt(t)
    \/ \E t \in Threads : Rm(t)
    \/ \E t \in Threads : AfterExecute(t)
    \/ \E t \in Threads : Ls(t)
    \/ \E t \in Threads : InitFileMap(t)
    \/ \E t \in Threads : MapFile(t)
    \/ \E t \in Threads : Finish(t)
    \/ Scan
    \/ \E s \in DOMAIN active_kernels \cup rp.to_delete : Pop(s)
    \/ Rmtree
    \/ Stop

PairSpec == PairInit /\ [][PairNext]_vars

(***************************************************************************)
(* CrowdedSpec: the /exec client and the reaper of Spec, started while the *)
(* daemon holds containers of an earlier process for more sessions than    *)
(* RCE_MAX_SESSIONS allows (the limit may have been lowered, or the        *)
(* containers started by several processes).  The leftovers use up the     *)
(* daemon's MaxContainers, so no containers.run succeeds and no mkdir is   *)
(* issued.                                                                 *)
(***************************************************************************)
CrowdedLeftovers ==
    { <<Container("running", "s1", TRUE, {}), Container("running", "s2", TRUE, {}),
        Container(st, "s3", TRUE, {})>> : st \in {"running", "exited"} }

CrowdedInit ==
    /\ active_kernels = EmptyMap
    /\ lock = "free"
    /\ session_to_nanoid = EmptyMap
    /\ nanoid_to_session = EmptyMap
    /\ file_id_map = EmptyMap
    /\ \E left \in CrowdedLeftovers :
         docker = [h \in Handles |-> IF h <= Len(left) THEN left[h] ELSE Unborn]
    /\ session_dirs = {}
    /\ file_bytes = EmptyMap
    /\ volume_mode = FALSE
    /\ data_dir_internal = TRUE
    /\ now = 0
    /\ faults = 0
    /\ nanoid_count = 0
    /\ started = FALSE
    /\ requests = [t \in Threads |-> IF t = "t1" THEN MaxRequests ELSE 0]
    /\ th = [t \in Threads |-> InitThread]
    /\ rp = InitReaper

CrowdedNext ==
    \/ recover_containers
    \/ Tick
    \/ \E t \in Threads, client \in SessionIds \cup DOMAIN nanoid_to_session :
          BeginExec(t, client)
    \/ \E t \in Threads : Resolve(t)
    \/ \E t \in Threads : Mint(t)
    \/ \E t \in Threads : get_or_create_container(t)
    \/ \E t \in Threads : Reload(t)
    \/ \E t \in Threads : Start(t)
    \/ \E t \in Threads : start_new_container_unlocked(t)
    \/ \E t \in Threads : Run(t)
    \/ \E t \in Threads : Attempt(t)
    \/ \E t \in Threads : Rm(t)
    \/ \E t \in Threads : Respond(t)
    \/ Scan
    \/ \E s \in SessionIds : Pop(s)
    \/ Rmtree
    \/ Stop

CrowdedSpec == CrowdedInit /\ [][CrowdedNext]_vars

(***************************************************************************)
(* LiveSpec: two /exec clients of session s1 and the reaper, under the     *)
(* scheduling the process has: startup_event runs recover_containers and   *)
(* starts cleanup_loop (main.py:486-491), whose sweeps follow one another  *)
(* for ever (main.py:307-315); every request thread keeps running, every   *)
(* call to the daemon returns, and the clock advances.  Requests arrive    *)
(* when clients send them: nothing forces one.  The daemon holds the       *)
(* container an earlier process left for s1, running or exited, and fails  *)
(* transiently once at most.                                               *)
(***************************************************************************)
LiveLeftovers == { <<"running">>, <<"exited">> }

LiveInit ==
    /\ active_kernels = EmptyMap
    /\ lock = "free"
    /\ session_to_nanoid = EmptyMap
    /\ nanoid_to_session = EmptyMap
    /\ file_id_map = EmptyMap
    /\ \E left \in LiveLeftovers :
         docker = [h \in Handles |->
                     IF h <= Len(left)
                     THEN Container(left[h], LeftoverLabel(h), TRUE, {})
                     ELSE Unborn]
    /\ session_dirs = {}
    /\ file_bytes = EmptyMap
    /\ volume_mode = FALSE
    /\ data_dir_internal = TRUE
    /\ now = 0
    /\ faults = MaxFaults - 1
    /\ nanoid_count = 0
    /\ started = FALSE
    /\ requests = [t \in Threads |-> MaxRequests]
    /\ th = [t \in Threads |-> InitThread]
    /\ rp = InitReaper

LiveNext ==
    \/ recover_containers
    \/ Tick
    \/ \E t \in Threads : BeginExec(t, "s1")
    \/ \E t \in Threads : Resolve(t)
    \/ \E t \in Threads : Mint(t)
    \/ \E t \in Threads : get_or_create_container(t)
    \/ \E t \in Threads : Reload(t)
    \/ \E t \in Threads : Start(t)
    \/ \E t \in Threads : start_new_container_unlocked(t)
    \/ \E t \in Threads : Run(t)
    \/ \E t \in Threads : Mkdir(t)
    \/ \E t \in Threads : Attempt(t)
    \/ \E t \in Threads : Rm(t)
    \/ \E t \in Threads : Respond(t)
    \/ Scan
    \/ \E s \in SessionIds : Pop(s)
    \/ Rmtree
    \/ Stop

\* the steps of one request thread once its request has arrived
ThreadStep(t) ==
    \/ Resolve(t) \/ Mint(t) \/ get_or_create_container(t)
    \/ Reload(t) \/ Start(t)
    \/ start_new_container_unlocked(t) \/ Run(t) \/ Mkdir(t)
    \/ Attempt(t) \/ Rm(t) \/ Respond(t)

\* the steps of cleanup_loop
ReaperStep ==
    \/ Scan
    \/ \E s \in SessionIds : Pop(s)
    \/ Rmtree
    \/ Stop

LiveSpec ==
    /\ LiveInit
    /\ [][LiveNext]_vars
    /\ WF_vars(recover_containers)
    /\ WF_vars(Tick)
    /\ \A t \in Threads : WF_vars(ThreadStep(t))
    /\ WF_vars(ReaperStep)

(***************************************************************************)
(* PureSpec: the functions of main.py that read no state (sanitize_id,     *)
(* wrap_code, the result handling of list_files), each applied once to an  *)
(* input drawn from a bounded set by a thread of a freshly constructed     *)
(* service.                                                                *)
(***************************************************************************)
MaxIdLen == 3           \* characters of an id
MaxOutputLen == 4       \* tokens of an ls output
MaxStatements == 3      \* statements of a code snippet

SeqsUpTo(S, n) == UNION {[1..k -> S] : k \in 0..n}

\* characters sanitize_id keeps and characters it drops
IdChars == {"a", "Z", "7", "-", "_"} \cup DroppedChars
SanitizeInputs == SeqsUpTo(IdChars, MaxIdLen)

ExitStatuses == {0, 1, LsFailed}
LsResults ==
    [exit_code : ExitStatuses, output : SeqsUpTo({"a", "b", "\n"}, MaxOutputLen)]

Statements ==
    { Statement("Expr", "", "x + 1"), Statement("Assign", "y", "2"),
      Statement("Import", "", "os") }
WrapInputs ==
    [parses : {TRUE}, body : SeqsUpTo(Statements, MaxStatements), form : {"source"}]
      \cup {[parses |-> FALSE, body |-> <<>>, form |-> "source"]}

PureInit ==
    /\ active_kernels = EmptyMap
    /\ lock = "free"
    /\ session_to_nanoid = EmptyMap
    /\ nanoid_to_session = EmptyMap
    /\ file_id_map = EmptyMap
    /\ docker = [h \in Handles |-> Unborn]
    /\ session_dirs = {}
    /\ file_bytes = EmptyMap
    /\ volume_mode = FALSE
    /\ data_dir_internal = TRUE
    /\ now = 0
    /\ faults = 0
    /\ nanoid_count = 0
    /\ started = FALSE
    /\ requests = [t \in Threads |-> 0]
    /\ rp = InitReaper
    /\ \/ \E id \in SanitizeInputs :
            th = [t \in Threads |->
                    IF t = "t1" THEN [InitThread EXCEPT !.op = "sanitize_id", !.raw = id]
                    ELSE InitThread]
       \/ \E code \in WrapInputs :
            th = [t \in Threads |->
                    IF t = "t1" THEN [InitThread EXCEPT !.op = "wrap_code", !.code = code]
                    ELSE InitThread]
       \/ \E res \in LsResults :
            th = [t \in Threads |->
                    IF t = "t1" THEN [InitThread EXCEPT !.op = "list_files", !.res = res]
                    ELSE InitThread]

\* the thread applies the function its op names to its input
Sanitize(t) ==
    /\ th[t].pc = "idle" /\ th[t].op = "sanitize_id"
    /\ th' = [th EXCEPT ![t].pc = "done", ![t].client = sanitize_id(th[t].raw)]
    /\ UNCHANGED <<active_kernels, lock, mapVars, docker, session_dirs, file_bytes, envVars,
                   faults, nanoid_count, requests, rp>>

Wrap(t) ==
    /\ th[t].pc = "idle" /\ th[t].op = "wrap_code"
    /\ th' = [th EXCEPT ![t].pc = "done", ![t].wrapped = wrap_code(th[t].code)]
    /\ UNCHANGED <<active_kernels, lock, mapVars, docker, session_dirs, file_bytes, envVars,
                   faults, nanoid_count, requests, rp>>

ListFiles(t) ==
    /\ th[t].pc = "idle" /\ th[t].op = "list_files"
    /\ th' = [th EXCEPT ![t].pc = "done", ![t].listing = list_files(th[t].res)]
    /\ UNCHANGED <<active_kernels, lock, mapVars, docker, session_dirs, file_bytes, envVars,
                   faults, nanoid_count, requests, rp>>

PureNext ==
    \/ \E t \in Threads : Sanitize(t)
    \/ \E t \in Threads : Wrap(t)
    \/ \E t \in Threads : ListFiles(t)

PureSpec == PureInit /\ [][PureNext]_vars

(***************************************************************************)
(* Reading a thread's log.                                                 *)
(***************************************************************************)
EventsOf(log, e) == {i \in DOMAIN log : log[i].ev = e}
Count(log, e) == Cardinality(EventsOf(log, e))
Last(log) == log[Len(log)]
\* execute_code has obtained a handle: its first get_or_create_container returned
Obtained(r) == r.op = "exec" /\ Len(r.log) > 0 /\ r.log[1].ev = "goc"
\* the handle most recently returned by get_or_create_container
LatestHandle(log) ==
    LET got == {i \in DOMAIN log : log[i].ev \in {"goc", "fgoc"} /\ log[i].r = "ok"}
    IN log[CHOOSE i \in got : \A j \in got : j <= i].h
LiveFor(s) == {h \in Handles : docker[h].status = "running" /\ docker[h].session_id = s}

(***************************************************************************)
(* C1: each internal id has at most one live (running) sandbox at the      *)
(* executor: when get_or_create_container has dropped the cached handle    *)
(* (replaced) and started a new sandbox for the id, the dropped handle's   *)
(* sandbox is not live.  Refuted: the handle is dropped without a stop.    *)
(***************************************************************************)
C1_OneLiveSandboxPerSession ==
    \A t \in Threads :
        (th[t].pc = "mkdir" /\ th[t].replaced # 0)
        => Cardinality(LiveFor(th[t].sid) \cap {th[t].replaced, th[t].c}) <= 1

C3_NoExecutorCallUnderLock ==
    /\ \A t \in Threads : th[t].pc \in ExecutorCallPcs => lock # t
    /\ rp.pc \in ExecutorCallPcs => lock # "reaper"

(***************************************************************************)
(* C4: when the first attempt of execute_code fails with NotFound or       *)
(* APIError and the second succeeds, exactly one forced                    *)
(* get_or_create_container lies between them, the call returns the second  *)
(* attempt's result, and the rm goes to the refreshed handle.              *)
(***************************************************************************)
RetriedAndSucceeded(r) ==
    /\ r.pc = "done"
    /\ Obtained(r)
    /\ \E i, j \in EventsOf(r.log, "attempt") :
         i < j /\ Retryable(r.log[i].r) /\ r.log[j].r = "ok"

C4_RetryUsesRefreshedHandle ==
    \A t \in Threads :
        LET r == th[t]
            L == r.log
        IN RetriedAndSucceeded(r) =>
             /\ Len(L) = 5
             /\ L[2].ev = "attempt" /\ L[2].h = L[1].h
             /\ L[3].ev = "fgoc" /\ L[3].r = "ok"
             /\ Count(L, "fgoc") = 1
             /\ L[4].ev = "attempt" /\ L[4].h = L[3].h
             /\ L[5].ev = "rm" /\ L[5].h = L[3].h
             /\ r.outcome = Outcome("200", L[4].exit, L[3].h)

\* the retry succeeded on a handle other than the original one
C4_Witness ==
    \E t \in Threads :
        /\ RetriedAndSucceeded(th[t])
        /\ th[t].log[3].h # th[t].log[1].h
        /\ th[t].outcome.exit = 1

(***************************************************************************)
(* C5: execute_code makes at most two attempts and at most one forced      *)
(* refresh; a second retryable failure ends the call with a 500; and every *)
(* step of execute_code lowers Rank, so the call ends once its executor    *)
(* calls return.                                                           *)
(***************************************************************************)
PcRank(pc) ==
    CASE pc = "goc" -> 8 [] pc = "reload" -> 7 [] pc = "start" -> 6
      [] pc = "create" -> 5 [] pc = "run" -> 4 [] pc = "mkdir" -> 3
      [] pc = "attempt" -> 2 [] pc = "rm" -> 1 [] OTHER -> 0
Rank(r) == PcRank(r.pc) + (IF r.force THEN 0 ELSE 10)
InExecute(r) == r.op = "exec" /\ r.pc \notin {"idle", "resolve", "mint", "done"}

C5_AtMostOneRetry ==
    /\ [](\A t \in Threads :
            LET r == th[t]
                att == EventsOf(r.log, "attempt")
            IN /\ Cardinality(att) <= 2
               /\ Count(r.log, "fgoc") <= 1
               /\ ( /\ r.pc = "done"
                    /\ Cardinality(att) = 2
                    /\ \A i \in att : Retryable(r.log[i].r) )
                  => r.outcome.code = "500")
    /\ [][\A t \in Threads :
            (InExecute(th[t]) /\ th'[t] # th[t]) => Rank(th'[t]) < Rank(th[t])]_vars

C5_Witness ==
    \E t \in Threads :
        /\ th[t].pc = "done"
        /\ Count(th[t].log, "attempt") = 2
        /\ \A i \in EventsOf(th[t].log, "attempt") : Retryable(th[t].log[i].r)
        /\ th[t].outcome.code = "500"

(***************************************************************************)
(* C6: once execute_code has obtained a handle, every way out of it issues *)
(* exactly one rm, after the last attempt, on the handle most recently     *)
(* obtained, before the caller sees the result or the error.               *)
(***************************************************************************)
C6_CleanupAlwaysRuns ==
    \A t \in Threads :
        LET r == th[t]
            L == r.log
        IN Obtained(r) =>
             /\ Count(L, "rm") <= 1
             /\ r.outcome.code # "none" <=> Count(L, "rm") = 1
             /\ Count(L, "rm") = 1 =>
                  /\ Last(L).ev = "rm"
                  /\ Last(L).h = LatestHandle(L)
                  /\ r.pc = "done"

\* the forced refresh failed and the rm went to the original handle
C6_Witness ==
    \E t \in Threads :
        /\ th[t].pc = "done"
        /\ Obtained(th[t])
        /\ \E i \in EventsOf(th[t].log, "fgoc") : th[t].log[i].r # "ok"
        /\ Last(th[t].log).ev = "rm"
        /\ Last(th[t].log).h = th[t].log[1].h

(***************************************************************************)
(* C7: a failing rm never changes what execute_code reports: the outcome   *)
(* is the one settled before the rm, whether the rm failed or not.         *)
(***************************************************************************)
C7_CleanupFailureSwallowed ==
    [][\A t \in Threads :
         (th[t].pc = "rm" /\ th'[t] # th[t])
         => /\ th'[t].pc = "done"
            /\ th'[t].outcome = th[t].pending]_vars

C7_Witness ==
    \E t \in Threads :
        /\ th[t].pc = "done"
        /\ Obtained(th[t])
        /\ Last(th[t].log) = Event("rm", th[t].container, "fail", -1)
        /\ th[t].outcome.code = "200"

(***************************************************************************)
(* C8: an attempt that fails with an error other than NotFound or APIError *)
(* is followed by no retry and no forced refresh, only by the rm, and the  *)
(* call reports a 500.                                                     *)
(***************************************************************************)
C8_OtherErrorNotRetried ==
    \A t \in Threads :
        LET r == th[t]
            L == r.log
        IN \A i \in EventsOf(L, "attempt") :
             L[i].r = "other" =>
               /\ \A j \in DOMAIN L : j > i => (j = i + 1 /\ L[j].ev = "rm")
               /\ r.pc \in {"rm", "done"}
               /\ r.pc = "rm" => r.pending.code = "500"
               /\ r.pc = "done" => r.outcome.code = "500"

C8_Witness ==
    \E t \in Threads :
        /\ th[t].pc = "done"
        /\ th[t].outcome.code = "500"
        /\ Count(th[t].log, "attempt") = 1
        /\ Count(th[t].log, "fgoc") = 0
        /\ \E i \in EventsOf(th[t].log, "attempt") : th[t].log[i].r = "other"

(***************************************************************************)
(* C9: a sweep of cleanup_sessions selects exactly the sessions idle for   *)
(* more than RCE_SESSION_TTL (TTL + 1 is reaped, TTL is not); each         *)
(* selected session is popped and the handle popped is asked to stop; a    *)
(* session that was not selected keeps its entry, handle and mappings, and *)
(* no other container is stopped.                                          *)
(***************************************************************************)
Holds(reg, h) == \E s \in DOMAIN reg : reg[s].container = h

C9_ReapsExactlyExpired ==
    [][rp' # rp =>
         /\ (rp.pc = "sleep") =>
              /\ rp'.selected = {s \in DOMAIN active_kernels :
                                   now - active_kernels[s].last_accessed
                                     >= RCE_SESSION_TTL + 1}
              /\ rp'.to_delete = rp'.selected
              /\ active_kernels' = active_kernels
         /\ (rp.pc = "loop") =>
              /\ rp'.cur \in rp.to_delete
              /\ rp'.cur \notin DOMAIN active_kernels'
              /\ rp'.cur \notin DOMAIN session_to_nanoid'
              /\ rp'.cur \in DOMAIN active_kernels
                   => rp'.data = active_kernels[rp'.cur].container
         /\ (rp.pc = "rmtree" /\ rp.data # 0) =>
              /\ rp'.pc = "stop"
              /\ rp.data \in rp'.stops
         /\ \A s \in (DOMAIN active_kernels) \ rp.selected :
              /\ s \in DOMAIN active_kernels'
              /\ active_kernels'[s] = active_kernels[s]
              /\ s \in DOMAIN session_to_nanoid =>
                   /\ s \in DOMAIN session_to_nanoid'
                   /\ session_to_nanoid'[s] = session_to_nanoid[s]
                   /\ session_to_nanoid[s] \in DOMAIN nanoid_to_session
                        => session_to_nanoid[s] \in DOMAIN nanoid_to_session'
         /\ \A h \in Handles :
              docker'[h] # docker[h] => (h = rp.data /\ h \in rp.popped)]_vars

\* a session idle for exactly the TTL is kept while one idle for TTL + 1,
\* popped in the same sweep, is being stopped
C9_Witness ==
    /\ rp.pc = "stop"
    /\ now = RCE_SESSION_TTL + 1
    /\ \E s \in DOMAIN active_kernels :
         /\ s \notin rp.selected
         /\ now - active_kernels[s].last_accessed = RCE_SESSION_TTL
         /\ s \in DOMAIN session_to_nanoid

(***************************************************************************)
(* C10: in a sweep the entry of a selected session is popped before its    *)
(* stop is requested; a stop that fails leaves the rest of the sweep as it *)
(* was; when the sweep ends every selected session has been popped, every  *)
(* handle popped has been asked to stop, and no entry holds such a handle. *)
(***************************************************************************)
C10_StopFailureIsolated ==
    /\ [](rp.pc = "stop" =>
            /\ rp.cur \in rp.processed
            /\ rp.data \in rp.popped
            /\ ~Holds(active_kernels, rp.data))
    /\ [][rp' # rp =>
            /\ (rp.pc = "stop") =>
                 /\ rp'.to_delete = rp.to_delete
                 /\ rp.to_delete # {} => rp'.pc = "loop"
            /\ (rp.pc # "sleep" /\ rp'.pc = "sleep") =>
                 /\ rp.to_delete = {}
                 /\ rp.processed = rp.selected
                 /\ rp.stops = rp.popped
                 /\ \A h \in rp.popped : ~Holds(active_kernels', h)]_vars

\* a second session is being stopped after the stop of the first one failed
C10_Witness ==
    /\ rp.pc = "stop"
    /\ rp.failed # {}
    /\ rp.data \notin rp.failed
    /\ Cardinality(rp.selected) = 2

(***************************************************************************)
(* C11: the critical section of cleanup_sessions that pops a session's     *)
(* registry entry also pops its internal-to-public entry, the matching     *)
(* public-to-internal entry and the file-id map of its public id, before   *)
(* the stop is requested; after it no mapping entry refers to the session; *)
(* and a stop that returns or fails changes no mapping.                    *)
(***************************************************************************)
C11_MappingsReapedWithSession ==
    [][rp' # rp =>
         /\ (rp.pc = "loop") =>
              LET s == rp'.cur IN
              /\ s \notin DOMAIN active_kernels'
              /\ s \notin DOMAIN session_to_nanoid'
              /\ \A p \in DOMAIN nanoid_to_session' : nanoid_to_session'[p] # s
              /\ s \in DOMAIN session_to_nanoid =>
                   /\ session_to_nanoid[s] \notin DOMAIN nanoid_to_session'
                   /\ session_to_nanoid[s] \notin DOMAIN file_id_map'
              /\ rp'.pc = "rmtree"
         /\ (rp.pc \in {"rmtree", "stop"}) => mapVars' = mapVars]_vars

\* the stop of one session has failed and the session popped after it, the
\* only one whose ids had been minted (a uuid and a file id), has no mapping
\* left
C11_Witness ==
    /\ rp.pc \in {"rmtree", "stop"}
    /\ rp.failed # {}
    /\ rp.data \notin rp.failed
    /\ nanoid_count >= 2
    /\ session_to_nanoid = EmptyMap
    /\ nanoid_to_session = EmptyMap
    /\ file_id_map = EmptyMap

(***************************************************************************)
(* C12: recover_containers gives each session_id label found on a listed   *)
(* container of this service, and no other id, one entry: the first        *)
(* container listed with the label, with last_accessed the current time; a *)
(* later container with the same label does not replace it; nothing is     *)
(* started or provisioned (the daemon is left as it was).  When the        *)
(* listing fails nothing is adopted.                                       *)
(***************************************************************************)
Labelled(s) == {h \in Listed : docker[h].session_id = s}

C12_RecoverAdoptsExisting ==
    [][(~started /\ started') =>
         /\ docker' = docker
         /\ th' = th
         /\ \/ active_kernels' = active_kernels
            \/ /\ DOMAIN active_kernels' = {docker[h].session_id : h \in Listed} \ {""}
               /\ \A s \in DOMAIN active_kernels' :
                    /\ active_kernels'[s].container \in Labelled(s)
                    /\ \A g \in Labelled(s) : active_kernels'[s].container <= g
                    /\ active_kernels'[s].last_accessed = now]_vars

\* recovery has just run over two containers labelled s1 and one without a
\* session_id label: s1 holds the first, the second is still stopped
C12_Witness ==
    /\ started
    /\ \A t \in Threads : th[t].pc = "idle" /\ requests[t] \in {0, MaxFileRequests}
    /\ DOMAIN active_kernels = {"s1"}
    /\ active_kernels["s1"].container = 1
    /\ Cardinality(Labelled("s1")) = 2
    /\ docker[3].status = "exited"
    /\ \E h \in Listed : docker[h].session_id = ""

(***************************************************************************)
(* C13: a failure met for one environment during recover_containers is     *)
(* skipped: of the session_id labels listed, at most the one of the        *)
(* failing environment is missing from the registry afterwards.  Refuted:  *)
(* the only call of recovery that can fail is containers.list, which       *)
(* inspects each container in turn, and its failure leaves recovery        *)
(* without any adoption (recover_containers itself does not raise).        *)
(***************************************************************************)
C13_RecoverSkipsOnlyTheFailed ==
    [][(~started /\ started') =>
         Cardinality(({docker[h].session_id : h \in Listed} \ {""})
                       \ DOMAIN active_kernels') <= 1]_vars

(***************************************************************************)
(* C14: when an operation that obtained the handle of its session          *)
(* completes, the container behind the handle is not a stopped one (a      *)
(* stopped container is one recover_containers adopted as it was).         *)
(* Refuted: only execute_code, through its retry, has the stopped          *)
(* container started; list_files, upload_file and download_file use the    *)
(* cached handle as it is.                                                 *)
(***************************************************************************)
C14_StoppedAdoptedStartedOnAccess ==
    [][\A t \in Threads :
         (th[t].pc # "done" /\ th'[t].pc = "done" /\ th'[t].container # 0)
         => docker'[th'[t].container].status # "exited"]_vars

(***************************************************************************)
(* C15: minting in run_code is idempotent per internal id.  A request      *)
(* whose internal id has a public id receives that one and changes no      *)
(* mapping; otherwise it receives an id no mapping holds.  Two requests    *)
(* for one internal id whose public ids are both live hold the same id,    *)
(* and no two internal ids hold the same public id.                        *)
(***************************************************************************)
C15_MintIdempotent ==
    /\ [](\A s1, s2 \in DOMAIN session_to_nanoid :
            session_to_nanoid[s1] = session_to_nanoid[s2] => s1 = s2)
    /\ [](\A t, u \in Threads :
            ( /\ th[t].nanoid \in DOMAIN nanoid_to_session
              /\ th[u].nanoid \in DOMAIN nanoid_to_session
              /\ nanoid_to_session[th[t].nanoid] = nanoid_to_session[th[u].nanoid] )
            => th[t].nanoid = th[u].nanoid)
    /\ [][\A t \in Threads :
            (th[t].pc = "mint" /\ th'[t] # th[t]) =>
              IF th[t].sid \in DOMAIN session_to_nanoid
              THEN /\ th'[t].nanoid = session_to_nanoid[th[t].sid]
                   /\ mapVars' = mapVars
              ELSE /\ th'[t].nanoid \notin DOMAIN nanoid_to_session
                   /\ \A s \in DOMAIN session_to_nanoid :
                        session_to_nanoid[s] # th'[t].nanoid
                   /\ session_to_nanoid' =
                        Put(session_to_nanoid, th[t].sid, th'[t].nanoid)
                   /\ nanoid_to_session' =
                        Put(nanoid_to_session, th'[t].nanoid, th[t].sid)]_vars

\* two requests in flight for one internal id hold the one public id minted,
\* the second having named the session by that public id
C15_Witness ==
    /\ th["t1"].nanoid # ""
    /\ th["t1"].nanoid = th["t2"].nanoid
    /\ th["t1"].sid = th["t2"].sid
    /\ th["t1"].client # th["t2"].client
    /\ th["t1"].nanoid \in DOMAIN nanoid_to_session
    /\ nanoid_count = 1

(***************************************************************************)
(* C16: resolve_session_id(id) is the internal id that sanitize_id(id)     *)
(* maps to when it is a known public id, and sanitize_id(id) otherwise     *)
(* ("../s1" resolves as "s1" does); the public id of a session resolves to *)
(* the session for as long as the mapping lives; and the step of an        *)
(* endpoint that resolves its id changes neither registry nor mappings.    *)
(***************************************************************************)
ResolvesTo(id) ==
    LET x == sanitize_id(id)
    IN IF x \in DOMAIN nanoid_to_session THEN nanoid_to_session[x] ELSE x

C16_ResolveFunction ==
    /\ [](\A id \in ClientIds : resolve_session_id(id) = ResolvesTo(id))
    /\ [](sanitize_id(<<".", ".", "/", "s1">>) = "s1")
    /\ [](\A s \in DOMAIN session_to_nanoid :
            resolve_session_id(<<session_to_nanoid[s]>>) = s)
    /\ [][\A t \in Threads :
            ( \/ th[t].pc = "resolve" /\ th'[t].pc = "mint"
              \/ th[t].pc = "idle" /\ th'[t].op \in {"list", "upload"} )
            => /\ th'[t].sid = ResolvesTo(IF th'[t].op = "exec"
                                          THEN <<th[t].client>> ELSE th'[t].raw)
               /\ active_kernels' = active_kernels
               /\ mapVars' = mapVars]_vars

\* a request that named its session by a public id, sent with characters
\* sanitize_id drops, works on the internal id the public id stands for
C16_Witness ==
    \E t \in Threads :
        /\ th[t].op = "list"
        /\ th[t].pc = "goc"
        /\ th[t].client \in DOMAIN nanoid_to_session
        /\ th[t].sid = nanoid_to_session[th[t].client]
        /\ th[t].sid # th[t].client
        /\ Len(th[t].raw) > 1


\* C17: within one session's file-id map no two file ids stand for the same
\* filename, and while the map lives every id in it keeps its filename: an
\* /exec or an upload that observes a filename already present mints nothing,
\* whichever thread comes first.
C17_FileIdsStable ==
    /\ [](\A n \in DOMAIN file_id_map :
            \A j, k \in DOMAIN file_id_map[n] :
                file_id_map[n][j] = file_id_map[n][k] => j = k)
    /\ [][\A n \in (DOMAIN file_id_map) \cap (DOMAIN file_id_map') :
            \A k \in DOMAIN file_id_map[n] :
                /\ k \in DOMAIN file_id_map'[n]
                /\ file_id_map'[n][k] = file_id_map[n][k]]_vars

\* an upload of a.txt and an /exec that listed a.txt, on two threads in the
\* same session, have both answered and the file has one id
C17_Witness ==
    /\ th["t1"].pc = "done" /\ th["t1"].op = "upload"
    /\ th["t1"].outcome.code = "200" /\ th["t1"].filename = <<"a.txt">>
    /\ th["t2"].pc = "done" /\ th["t2"].op = "exec_ls"
    /\ th["t2"].outcome.code = "200"
    /\ th["t2"].nanoid = th["t1"].nanoid
    /\ th["t2"].container = th["t1"].container
    /\ <<"a.txt">> \in docker[th["t2"].container].files
    /\ th["t1"].nanoid \in DOMAIN file_id_map
    /\ Cardinality({k \in DOMAIN file_id_map[th["t1"].nanoid] :
                       file_id_map[th["t1"].nanoid][k] = <<"a.txt">>}) = 1

\* the last component of a filename, the places of a file request before its
\* filename has been reduced, and a step of thread t that answers 400 and
\* touches neither the registry, the executor nor the workspaces
LastComponent(f) == <<f[Len(f)]>>
EarlyPcs == {"idle", "upload_mint", "upload_file", "open", "download_file", "done"}
Rejected400(t) ==
    /\ th'[t].pc = "done"
    /\ th'[t].outcome.code = "400"
    /\ UNCHANGED <<active_kernels, docker, session_dirs>>

\* C18: upload_file and download_file use only the last component of the
\* filename they are given: the name written to or read from the workspace
\* is that single component, a listing shows only single components, and a
\* filename whose last component is empty is answered with 400 while the
\* registry, the executor and the workspace are left as they were.
C18_BaseNameOnly ==
    /\ [](\A t \in Threads :
            th[t].op \in {"upload", "download"} /\ th[t].pc \notin EarlyPcs
                => Len(th[t].safe) = 1 /\ th[t].safe # <<"">>)
    /\ [](\A h \in Handles : \A f \in docker[h].files : Len(f) = 1 /\ f # <<"">>)
    /\ [](\A t \in Threads :
            th[t].op = "list" /\ th[t].pc = "done" /\ th[t].outcome.code = "200"
                => \A f \in th[t].files : Len(f) = 1)
    /\ [][\A t \in Threads :
            th[t].pc = "upload_file" /\ th'[t] # th[t]
                => IF LastComponent(th[t].filename) = <<"">> THEN Rejected400(t)
                   ELSE /\ th'[t].pc = "goc"
                        /\ th'[t].safe = LastComponent(th[t].filename)
                        /\ session_dirs' =
                             IF volume_mode
                             THEN session_dirs \cup
                                    {<<th[t].sid>>, <<th[t].sid>> \o LastComponent(th[t].filename)}
                             ELSE session_dirs]_vars
    /\ [][\A t \in Threads :
            th[t].pc = "download_file" /\ th'[t] # th[t]
                => IF LastComponent(th[t].safe) = <<"">> THEN Rejected400(t)
                   ELSE /\ th'[t].safe = LastComponent(th[t].safe)
                        /\ th'[t].path \in {<<>>, <<th[t].sid>> \o LastComponent(th[t].safe)}]_vars
    /\ [][\A t \in Threads :
            th[t].pc = "put" /\ th'[t] # th[t]
                => \A h \in Handles :
                     docker'[h].files \subseteq
                        docker[h].files \cup {LastComponent(th[t].filename)}]_vars

\* a file uploaded as ../s2/a.txt into a container's workspace is listed as
\* a.txt
C18_Witness ==
    \E t \in Threads :
        /\ th[t].op = "list" /\ th[t].pc = "done" /\ th[t].outcome.code = "200"
        /\ ~volume_mode
        /\ th[t].files = {<<"a.txt">>}
        /\ \E n \in DOMAIN file_id_map :
              /\ n \in DOMAIN nanoid_to_session
              /\ nanoid_to_session[n] = th[t].sid
              /\ \E k \in DOMAIN file_id_map[n] :
                    file_id_map[n][k] = <<"..", "s2", "a.txt">>

\* C19: every file a download has opened, whether addressed by name or by a
\* public file id and in either storage mode, lies directly inside the
\* workspace directory of the session the request addressed.
C19_DownloadInsideWorkspace ==
    \A t \in Threads :
        th[t].op = "download" /\ th[t].pc = "done" /\ th[t].outcome.code = "200"
            => Len(th[t].path) = 2 /\ th[t].path[1] = th[t].sid

\* the file a download is about to look for is absent from the workspace of
\* the session it addresses
Absent(t) ==
    IF th[t].pc = "get"
    THEN LastComponent(th[t].safe) \notin Workspace(th[t].container)
    ELSE <<th[t].sid>> \o LastComponent(th[t].safe) \notin session_dirs

\* C20: a download of a file that is absent from the session's workspace is
\* answered with 404, in archive mode and in shared-volume mode alike.
C20_AbsentIsNotFound ==
    [][\A t \in Threads :
         /\ th[t].op = "download"
         /\ th[t].pc \in {"open", "download_file", "get"}
         /\ th'[t].pc = "done"
         /\ Absent(t)
         => th'[t].outcome.code = "404"]_vars

\* the pcs of start_new_container_unlocked
CreatePcs == {"create", "run", "mkdir"}

\* C21: when containers.run or the mkdir exec_run of
\* start_new_container_unlocked fails, the function raises the 500 and goes
\* no further (no second run), and the registry is as it was when the
\* function was entered: it is written only by the step that returns the
\* new handle, and the lock is held from entry to exit.
C21_CreateFailureLeavesRegistry ==
    /\ [](\A t \in Threads : th[t].pc \in CreatePcs => lock = t)
    /\ [][\A t \in Threads :
            th[t].pc \in CreatePcs /\ active_kernels' # active_kernels
                => /\ th[t].pc = "mkdir"
                   /\ docker[th[t].c].status = "running"
                   /\ th'[t].pc \notin CreatePcs
                   /\ th'[t].container = th[t].c
                   /\ active_kernels' =
                        Put(active_kernels, th[t].sid,
                            [container |-> th[t].c, last_accessed |-> now])]_vars
    /\ [][\A t \in Threads :
            ( /\ th[t].pc \in {"run", "mkdir"}
              /\ th'[t].pc \notin CreatePcs
              /\ th'[t].container # th[t].c )
            => /\ active_kernels' = active_kernels
               /\ \E i \in DOMAIN th'[t].log :
                     /\ i > Len(th[t].log)
                     /\ th'[t].log[i] = Event("create", 0, "500", -1)]_vars
    /\ [](\A t \in Threads : \A i \in DOMAIN th[t].log :
            th[t].log[i] = Event("create", 0, "500", -1)
                => /\ th[t].pc \notin CreatePcs \cup {"goc", "reload", "start", "attempt"}
                   /\ \A j \in DOMAIN th[t].log :
                         j > i => th[t].log[j].ev \in {"fgoc", "rm"})

\* the mkdir of a creation has failed: the request ends with the 500, a
\* container runs for its session and the registry has no entry for it
C21_Witness ==
    \E t \in Threads :
        /\ th[t].pc = "done"
        /\ th[t].outcome.code = "500"
        /\ Last(th[t].log) = Event("create", 0, "500", -1)
        /\ th[t].sid \notin DOMAIN active_kernels
        /\ LiveFor(th[t].sid) # {}

\* C22: a get_or_create_container without force_refresh for an id that has
\* a registry entry returns the entry's handle in the step that takes the
\* lock: no reload, start or run is issued, the daemon is not touched and the
\* entry keeps its handle, so the next such call returns the same handle.
C22_CachedHandleReturned ==
    [][\A t \in Threads :
         ( /\ th[t].pc = "goc"
           /\ th'[t] # th[t]
           /\ ~th[t].force
           /\ th[t].sid \in DOMAIN active_kernels )
         => /\ th'[t].container = active_kernels[th[t].sid].container
            /\ th'[t].pc \notin CreatePcs \cup {"goc", "reload", "start"}
            /\ docker' = docker
            /\ lock' = lock
            /\ DOMAIN active_kernels' = DOMAIN active_kernels
            /\ \A s \in DOMAIN active_kernels :
                  active_kernels'[s].container = active_kernels[s].container]_vars

\* an /exec created the session's container and its list_files, the next
\* get_or_create_container for the id, got the same handle: the daemon
\* holds that one container
C22_Witness ==
    \E t \in Threads :
        /\ th[t].op = "exec_ls" /\ th[t].pc = "ls"
        /\ th[t].container # 0
        /\ th[t].container = th[t].outcome.h
        /\ {h \in Handles : docker[h].status # "unborn"} = {th[t].container}

\* the place upload_file and download_file use for the file a request names:
\* its base name in the session directory (volume mode) or in the container
\* get_or_create_container returned (archive mode)
PlaceOf(r, name) ==
    IF volume_mode THEN <<r.sid>> \o LastComponent(name)
    ELSE <<ToString(r.container)>> \o LastComponent(name)

\* C23: upload_file followed by download_file of the base name on the same
\* session, with no reap in between, returns the uploaded content, in
\* archive mode and in volume mode: the upload stores exactly its content at
\* the file's place, only a later upload to the place or the reaper's rmtree
\* changes what a place holds, and the download returns what its place holds.
C23_UploadDownloadRoundTrip ==
    /\ [][\A t \in Threads :
            ( /\ th[t].op = "upload"
              /\ \/ volume_mode /\ th[t].pc = "upload_file" /\ th'[t].pc = "goc"
                 \/ th[t].pc = "put" /\ th'[t].pc = "filemap" )
            => /\ PlaceOf(th[t], th[t].filename) \in DOMAIN file_bytes'
               /\ file_bytes'[PlaceOf(th[t], th[t].filename)] = th[t].content]_vars
    /\ [][\A p \in DOMAIN file_bytes :
            \/ p \in DOMAIN file_bytes' /\ file_bytes'[p] = file_bytes[p]
            \/ rp.pc = "rmtree" /\ p[1] = rp.cur
            \/ \E t \in Threads :
                  /\ th[t].op = "upload" /\ th[t].pc \in {"upload_file", "put"}
                  /\ th'[t] # th[t]
                  /\ p = PlaceOf(th[t], th[t].filename)]_vars
    /\ [][\A t \in Threads :
            ( /\ th[t].op = "download"
              /\ th'[t] # th[t]
              /\ \/ volume_mode /\ th[t].pc = "download_file"
                 \/ th[t].pc = "get" /\ docker[th[t].container].status # "gone"
              /\ PlaceOf(th[t], th[t].safe) \in DOMAIN file_bytes )
            => /\ th'[t].pc = "done"
               /\ th'[t].outcome.code = "200"
               /\ th'[t].content = file_bytes[PlaceOf(th[t], th[t].safe)]]_vars

\* in archive mode a download_file has returned the two bytes an upload
\* put into the session's container
C23_Witness ==
    \E t \in Threads :
        /\ ~volume_mode /\ ~data_dir_internal
        /\ th[t].op = "download" /\ th[t].pc = "done"
        /\ th[t].outcome.code = "200"
        /\ th[t].content = <<1, 2>>
        /\ file_bytes = (<<ToString(th[t].container)>> \o th[t].safe :> <<1, 2>>)

\* the positions of an ls output at which a non-empty line begins
LineStarts(out) ==
    {i \in DOMAIN out : out[i] # "\n" /\ (i = 1 \/ out[i - 1] = "\n")}

\* C24: for exit status 0 list_files returns the non-empty lines of the
\* output in their order (as many as the output has non-empty lines, none
\* empty, together the output without its line breaks); for any other exit
\* status it returns the empty list.
C24_ListFilesBestEffort ==
    \A t \in Threads :
        th[t].op = "list_files" /\ th[t].pc = "done"
            => IF th[t].res.exit_code = 0
               THEN /\ Len(th[t].listing) = Cardinality(LineStarts(th[t].res.output))
                    /\ \A i \in DOMAIN th[t].listing : th[t].listing[i] # ""
                    /\ Concat(th[t].listing) =
                         Concat(SelectSeq(th[t].res.output, LAMBDA c : c # "\n"))
               ELSE th[t].listing = <<>>

\* an output of two names with an empty line between them, read after
\* exit status 0, gave the two names in the order of the output
C24_Witness ==
    \E t \in Threads :
        /\ th[t].op = "list_files" /\ th[t].pc = "done"
        /\ th[t].res = [exit_code |-> 0, output |-> <<"b", "\n", "\n", "a">>]
        /\ th[t].listing = <<"b", "a">>

\* C25: wrap_code rewrites code only when it parses and its last top-level
\* statement is a bare expression: that statement becomes the assignment of
\* the expression to __last_res__, followed by the print of its repr under
\* `is not None`, and every earlier statement stays; any other code (last
\* statement not an expression, no statement, no parse) comes back as sent.
C25_WrapOnlyFinalExpression ==
    \A t \in Threads :
        th[t].op = "wrap_code" /\ th[t].pc = "done"
            => LET code == th[t].code
                   wrapped == th[t].wrapped
                   n == Len(code.body)
               IN IF code.parses /\ n > 0 /\ code.body[n].kind = "Expr"
                  THEN /\ Len(wrapped.body) = n + 1
                       /\ \A i \in 1..(n - 1) : wrapped.body[i] = code.body[i]
                       /\ wrapped.body[n] =
                            Statement("Assign", "__last_res__", code.body[n].value)
                       /\ wrapped.body[n + 1] =
                            Statement("If", "__last_res__ is not None",
                                      "print(repr(__last_res__))")
                  ELSE wrapped = code

\* code of an assignment followed by an expression has been rewritten
C25_Witness ==
    \E t \in Threads :
        /\ th[t].op = "wrap_code" /\ th[t].pc = "done"
        /\ th[t].code.body = <<Statement("Assign", "y", "2"), Statement("Expr", "", "x + 1")>>
        /\ th[t].wrapped.body =
             <<Statement("Assign", "y", "2"),
               Statement("Assign", "__last_res__", "x + 1"),
               Statement("If", "__last_res__ is not None", "print(repr(__last_res__))")>>

\* the characters of a string, one by one
Chars(s) == [i \in 1..Len(s) |-> SubSeq(s, i, i)]

\* C26: sanitize_id returns the characters of its input that are
\* alphanumeric, "-" or "_", in their order, and no other; applying it to
\* its own result changes nothing, and the empty input gives "".
C26_SanitizeKeepsSafeChars ==
    \A t \in Threads :
        th[t].op = "sanitize_id" /\ th[t].pc = "done"
            => /\ Chars(th[t].client) =
                    SelectSeq(th[t].raw, LAMBDA c : c \in {"a", "Z", "7", "-", "_"})
               /\ sanitize_id(Chars(th[t].client)) = th[t].client
               /\ th[t].raw = <<>> => th[t].client = ""

\* "./a" has been sanitized to "a"
C26_Witness ==
    \E t \in Threads :
        /\ th[t].op = "sanitize_id" /\ th[t].pc = "done"
        /\ th[t].raw = <<".", "/", "a">>
        /\ th[t].client = "a"

\* C27: the registry never holds more entries than RCE_MAX_SESSIONS.
C27_RegistryWithinCapacity ==
    Cardinality(DOMAIN active_kernels) <= RCE_MAX_SESSIONS

\* C28: the reaper removes a session's registry entry only if the session
\* is idle for longer than the TTL at the moment of the removal.
C28_ReaperSparesRefreshed ==
    [][\A s \in DOMAIN active_kernels :
         rp.pc = "loop" /\ rp'.pc = "rmtree" /\ s \notin DOMAIN active_kernels'
             => now - active_kernels[s].last_accessed > RCE_SESSION_TTL]_vars

\* C29: every get_or_create_container call of execute_code returns a handle
\* or raises the capacity error (503) or the provisioning error (500).
C29_GetOrCreateRaisesTypedErrors ==
    \A t \in Threads : \A i \in DOMAIN th[t].log :
        th[t].log[i].ev \in {"goc", "fgoc"} => th[t].log[i].r \in {"ok", "503", "500"}

\* the pcs of the forced refresh of get_or_create_container
RefreshPcs == {"reload", "start"}

\* C30: a forced refresh never ends in an error by itself.  When reload()
\* finds the container gone, or reload() or start() raises anything else,
\* the entry is deleted and the call goes on to start_new_container_unlocked
\* with the lock held; otherwise it returns the cached handle.  When the
\* creation that follows succeeds, the caller gets the new handle, which is
\* not the dropped one, runs, and is the registry's entry for the same id.
\* The forced call fails only after a failed creation.
C30_RefreshFallsThroughToCreate ==
    /\ [][\A t \in Threads :
            th[t].pc \in RefreshPcs /\ th'[t] # th[t]
                => /\ \/ /\ th'[t].pc = "create"
                         /\ th[t].sid \notin DOMAIN active_kernels'
                         /\ th'[t].replaced = th[t].c
                         /\ lock' = t
                      \/ /\ th'[t].pc = "start"
                         /\ docker[th[t].c].status = "exited"
                         /\ active_kernels' = active_kernels
                      \/ /\ th'[t].pc \notin CreatePcs \cup RefreshPcs \cup {"rm", "done"}
                         /\ th'[t].container = th[t].c
                         /\ docker'[th[t].c].status = "running"
                         /\ active_kernels'[th[t].sid].container = th[t].c
                   /\ docker[th[t].c].status = "gone" => th'[t].pc = "create"]_vars
    /\ [][\A t \in Threads :
            ( /\ th[t].pc = "mkdir" /\ th[t].replaced # 0
              /\ th'[t].pc \notin CreatePcs \cup {"rm", "done"} )
            => /\ th'[t].container = th[t].c
               /\ th[t].c # th[t].replaced
               /\ docker'[th[t].c].status = "running"
               /\ th[t].sid \in DOMAIN active_kernels'
               /\ active_kernels'[th[t].sid].container = th[t].c]_vars
    /\ [](\A t \in Threads : \A i \in DOMAIN th[t].log :
            th[t].log[i].ev = "fgoc" /\ th[t].log[i].r # "ok"
                => i > 1 /\ th[t].log[i - 1].ev = "create"
                         /\ th[t].log[i - 1].r \in {"500", "503"})

\* the container of the session was removed, the retry of execute_code forced
\* a refresh, and, no entry being old enough for the reaper, the call itself
\* dropped the entry and registered the new running container it returned
C30_Witness ==
    \E t \in Threads :
        /\ now <= RCE_SESSION_TTL
        /\ th[t].pc = "attempt" /\ th[t].force
        /\ Len(th[t].log) = 3
        /\ th[t].log[1].ev = "goc" /\ th[t].log[1].r = "ok"
        /\ th[t].log[2] = Event("attempt", th[t].log[1].h, "notfound", -1)
        /\ th[t].log[3] = Event("fgoc", th[t].container, "ok", -1)
        /\ th[t].container # th[t].log[1].h
        /\ docker[th[t].log[1].h].status = "gone"
        /\ docker[th[t].container].status = "running"
        /\ active_kernels[th[t].sid].container = th[t].container

\* C31: a forced refresh of an entry whose container the daemon still has,
\* when reload() and start() do not raise: a running container is returned
\* at once with the daemon untouched; a container that is not running gets
\* one start, after which it is returned running.  In both cases the handle
\* returned is the cached one, the entry keeps it with last_accessed = now,
\* no other entry changes and the daemon holds no new container.
C31_RefreshKeepsLiveHandle ==
    [][\A t \in Threads :
         ( /\ th[t].pc \in RefreshPcs
           /\ th'[t] # th[t]
           /\ docker[th[t].c].status # "gone"
           /\ faults' = faults )
         => /\ th[t].sid \in DOMAIN active_kernels
            /\ active_kernels[th[t].sid].container = th[t].c
            /\ IF th[t].pc = "reload" /\ docker[th[t].c].status # "running"
               THEN /\ th'[t].pc = "start"
                    /\ th'[t].c = th[t].c
                    /\ active_kernels' = active_kernels
                    /\ docker' = docker
               ELSE /\ th'[t].pc \notin RefreshPcs \cup CreatePcs \cup {"rm", "done"}
                    /\ th'[t].container = th[t].c
                    /\ active_kernels' =
                         [active_kernels EXCEPT ![th[t].sid].last_accessed = now]
                    /\ docker' = [docker EXCEPT ![th[t].c].status = "running"]
                    /\ th[t].pc = "reload" => docker' = docker]_vars

\* the adopted container of the session had exited: the first attempt failed,
\* the forced refresh started it, and the retry holds the same handle, now
\* running, with the timestamp of the refresh; the daemon has no other
\* container
C31_Witness ==
    \E t \in Threads :
        /\ th[t].pc = "attempt" /\ th[t].force
        /\ faults = 0
        /\ now > 0
        /\ th[t].log = << Event("goc", th[t].container, "ok", -1),
                          Event("attempt", th[t].container, "api", -1),
                          Event("fgoc", th[t].container, "ok", -1) >>
        /\ docker[th[t].container].status = "running"
        /\ active_kernels[th[t].sid] =
              [container |-> th[t].container, last_accessed |-> now]
        /\ {h \in Handles : docker[h].status # "unborn"} = {th[t].container}

\* C32: get_or_create_container calls for one session id that has no entry,
\* made by two threads at once.  Until an entry can expire, two threads
\* that hold a handle for the same id hold the same one, and no container
\* was started for the id after it.  A containers.run succeeds for an id
\* only under the lock and while the id has no entry, no other thread is
\* inside a creation or a refresh for it, and (until an entry can expire)
\* no other thread holds a handle for it.
C32_ConcurrentCreateProvisionsOne ==
    /\ [](\A t \in Threads : \A u \in Threads \ {t} :
            ( /\ now <= RCE_SESSION_TTL
              /\ th[t].sid = th[u].sid
              /\ th[t].container # 0 /\ ~th[t].force
              /\ th[u].container # 0 /\ ~th[u].force )
            => /\ th[t].container = th[u].container
               /\ \A g \in Handles :
                     g > th[t].container /\ docker[g].session_id = th[t].sid
                        => docker[g].status = "unborn")
    /\ [][\A t \in Threads :
            th[t].pc = "run" /\ th'[t].pc = "mkdir"
                => /\ lock = t
                   /\ th[t].sid \notin DOMAIN active_kernels
                   /\ \A u \in Threads \ {t} :
                         th[u].sid = th[t].sid
                            => /\ th[u].pc \notin CreatePcs \cup RefreshPcs
                               /\ now <= RCE_SESSION_TTL
                                    => th[u].container = 0 \/ th[u].force]_vars

\* two /exec requests for session s2, which had no entry and no container,
\* are both running their code: in the one container the daemon holds for
\* s2, which is the entry of s2
C32_Witness ==
    /\ th["t1"].sid = "s2" /\ th["t2"].sid = "s2"
    /\ th["t1"].pc = "attempt" /\ th["t2"].pc = "attempt"
    /\ th["t1"].container # 0
    /\ th["t1"].container = th["t2"].container
    /\ active_kernels["s2"].container = th["t1"].container
    /\ {h \in Handles : docker[h].session_id = "s2"} = {th["t1"].container}

\* C33: in volume mode no step removes a path of the session directory of a
\* session that has a registry entry, and the stop of the reaper never
\* takes a container that a registry entry holds.
C33_ReaperSparesRecreated ==
    [][volume_mode =>
         /\ \A p \in session_dirs \ session_dirs' : p[1] \notin DOMAIN active_kernels
         /\ rp.pc = "stop" /\ docker' # docker
              => \A s \in DOMAIN active_kernels :
                    active_kernels[s].container # rp.data]_vars

\* C34: an /exec request that ends with the capacity error or the
\* provisioning error of its first get_or_create_container has left no
\* public id behind for its session (the request is the only one served, so
\* the mapping tables were empty when it came in).
C34_FailedProvisioningLeavesNoMapping ==
    \A t \in Threads :
        ( /\ th[t].pc = "done" /\ th[t].op = "exec"
          /\ th[t].outcome.code \in {"500", "503"}
          /\ Len(th[t].log) = 1 /\ th[t].log[1].ev = "create" )
        => /\ th[t].sid \notin DOMAIN session_to_nanoid
           /\ th[t].nanoid \notin DOMAIN nanoid_to_session

\* C35: when the mkdir exec_run of start_new_container_unlocked has returned
\* and the container that containers.run started is in no registry entry,
\* that container is not running.
C35_FailedCreateLeavesNoSandbox ==
    [][\A t \in Threads :
         ( /\ th[t].pc = "mkdir" /\ th'[t].pc # "mkdir"
           /\ \A s \in DOMAIN active_kernels' :
                 active_kernels'[s].container # th[t].c )
         => docker'[th[t].c].status # "running"]_vars

\* C36: an internal id that has a public id got it from an /exec on that
\* session (run_code is the only writer of such a pair under an id a client
\* chose); with a registry entry, the session has a sandbox.  An /upload the
\* client sends under the same id X, once its id is settled, works on that
\* session.
C36_ExecAndUploadAgree ==
    \A t \in Threads :
        ( /\ th[t].op = "upload"
          /\ th[t].pc \notin {"idle", "upload_mint"}
          /\ sanitize_id(th[t].raw) \in DOMAIN session_to_nanoid
          /\ sanitize_id(th[t].raw) \in DOMAIN active_kernels )
        => th[t].sid = sanitize_id(th[t].raw)

\* the pcs at which a request thread asks for self.lock (main.py:151, 156,
\* 518) and those at which it holds it from an earlier step
LockPcs == {"resolve", "mint", "goc"}
HoldPcs == RefreshPcs \cup CreatePcs

\* C37: the lock is free or held by one request thread, and a thread holds
\* it exactly while it is inside the refresh or the creation of
\* get_or_create_container: it never asks for the lock it holds and has
\* released it wherever the operation has left that section, by return or
\* by exception; the reaper holds it within single steps only.  With every
\* executor call returning, a thread that asks for the lock gets it, and a
\* sweep that has sessions to pop gets to pop them.
C37_LockReleasedAndAcquired ==
    /\ [](lock \in {"free"} \cup Threads)
    /\ [](\A t \in Threads : lock = t <=> th[t].pc \in HoldPcs)
    /\ \A t \in Threads : (th[t].pc \in LockPcs) ~> (th[t].pc \notin LockPcs)
    /\ \A t \in Threads : (th[t].pc \in HoldPcs) ~> (lock # t)
    /\ (rp.pc = "loop") ~> (rp.pc # "loop")

\* one request waits at get_or_create_container while the other holds the
\* lock inside the creation, blocked in containers.run
C37_Witness ==
    /\ th["t1"].pc = "goc"
    /\ th["t2"].pc = "run"
    /\ lock = "t2"

\* C38: nanoid_to_session and session_to_nanoid are inverse maps: every
\* pair of the one is the reversed pair of the other.
C38_MappingsInverse ==
    /\ \A s \in DOMAIN session_to_nanoid :
          /\ session_to_nanoid[s] \in DOMAIN nanoid_to_session
          /\ nanoid_to_session[session_to_nanoid[s]] = s
    /\ \A n \in DOMAIN nanoid_to_session :
          /\ nanoid_to_session[n] \in DOMAIN session_to_nanoid
          /\ session_to_nanoid[nanoid_to_session[n]] = n

\* the tables hold a pair written by run_code and a pair written by
\* upload_files while a sweep of the reaper has popped an expired session
C38_Witness ==
    /\ rp.processed # {}
    /\ \E s \in DOMAIN session_to_nanoid : session_to_nanoid[s] = Nanoid(nanoid_count)
    /\ \E i \in 1..nanoid_count : Uuid(i) \in DOMAIN session_to_nanoid

\* C39: the step in which a get_or_create_container returns a handle leaves
\* the entry of the session with that handle and last_accessed = now,
\* whichever path returned it (cached, refreshed, restarted, created); and
\* no step lowers the last_accessed of an entry that stays.
C39_LastAccessedRefreshed ==
    /\ [][\A t \in Threads :
            ( /\ th[t].pc \in {"goc"} \cup HoldPcs
              /\ th'[t].pc \notin {"goc", "rm", "done"} \cup HoldPcs )
            => /\ th[t].sid \in DOMAIN active_kernels'
               /\ active_kernels'[th[t].sid] =
                    [container |-> th'[t].container, last_accessed |-> now]]_vars
    /\ [][\A s \in DOMAIN active_kernels \cap DOMAIN active_kernels' :
            active_kernels'[s].last_accessed >= active_kernels[s].last_accessed]_vars

\* the /exec of a session whose entry was written at time 0 got the cached
\* handle at time 2, and the entry carries that time
C39_Witness ==
    \E t \in Threads :
        /\ now = MaxTime
        /\ th[t].pc = "attempt" /\ ~th[t].force
        /\ th[t].log = <<Event("goc", th[t].container, "ok", -1)>>
        /\ active_kernels[th[t].sid] =
              [container |-> th[t].container, last_accessed |-> now]
        /\ rp.selected = {th[t].sid}

\* C40: every sweep of cleanup_loop comes to its end, whatever its stops
\* raised, and leaves the reaper waiting for the next one; and an entry
\* whose idle time exceeds the TTL is removed from the registry, unless an
\* access refreshes it first.
C40_ReaperKeepsSweeping ==
    /\ (rp.pc # "sleep") ~> (rp.pc = "sleep")
    /\ \A s \in SessionIds :
          (s \in DOMAIN active_kernels /\ now - active_kernels[s].last_accessed > RCE_SESSION_TTL)
            ~> ( \/ s \notin DOMAIN active_kernels
                 \/ now - active_kernels[s].last_accessed <= RCE_SESSION_TTL )

\* no request was ever sent: the sweep at time 2 removed the entry adopted
\* for s1, the stop of its container raised (the container still runs) and
\* the reaper is waiting for its next sweep
C40_Witness ==
    /\ started
    /\ now = MaxTime
    /\ \A t \in Threads : requests[t] = MaxRequests /\ th[t].pc = "idle"
    /\ "s1" \notin DOMAIN active_kernels
    /\ docker[1].status = "running"
    /\ faults = MaxFaults
    /\ rp = InitReaper
====
